---- MODULE Spec2Model ----
(***************************************************************************)
(* A model of the frame pipeline of danprince/games: the tween scheduler   *)
(* (src/src/tweens.ts), the timer scheduler (src/src/timers.ts), the input *)
(* snapshot (src/unnamed/part_007) and the draw-state stack with its       *)
(* coordinate mapper (src/src/core.ts), driven by _update                  *)
(* (src/src/particles.ts).                                                 *)
(*                                                                         *)
(* JavaScript numbers are modelled as exact rationals extended with NaN    *)
(* and +Infinity.  Every input below is an integer and every duration a    *)
(* power of two (or zero), so each quotient the code forms is a dyadic     *)
(* rational that an IEEE double holds exactly.                             *)
(***************************************************************************)
EXTENDS Integers, Sequences, FiniteSets, TLC

VARIABLES
    object,       \* the tween target: property name -> number
    _tweens,      \* tweens.ts:21, the active tweens in scheduling order
    sched,        \* history: every tween() call so far, by tween number
    stepCount,    \* history: calls of tween.callback, by tween number
    lastStep,     \* history: the argument of the last tween.callback call
    doneCount,    \* history: calls of tween.done, by tween number
    now,          \* history: the sum of the deltas of all frame ticks
    ticks,        \* history: the number of frame ticks
    _timers,      \* timers.ts:7, the active timers in scheduling order
    timerSched,   \* history: every delay() call so far, by timer number
    timerDone,    \* history: calls of timer.done, by timer number
    _delta,       \* particles.ts:533, the delta of the last frame tick
    _down,        \* part_007:28
    _pressed,     \* part_007:33
    _released,    \* part_007:38
    _pointer,     \* part_007:23
    _state,       \* core.ts:50, the current draw state
    _stack,       \* core.ts:49, the saved draw states
    ctxT,         \* the translation of the surface (ctx)
    ctxStack,     \* the translations saved by ctx.save()
    _sprites,     \* part_005:8, the keys of the cached bitmaps
    _textCursorCache, \* part_005:41, cache key -> cursor after the text
    frames,       \* history: one entry per open save()/view()
    calls,        \* history: the number of draw calls
    popsOnEmpty,  \* history: the restore()/end() calls that met an empty stack
    measured,     \* history: the last measure() call, <<>> before the first
    _keys,        \* random.ts:80, the object fills in the order they got a key
    lastWrite,    \* history: the last write() call, <<>> before the first
    keyOwner,     \* history: cache key -> the arguments that made its entry
    _canvasSize,  \* particles.ts:1172, cache key -> the size of the cached bitmap
    lastSlice,    \* history: the last draw9Slice() call, <<>> before the first
    lru,          \* utils.ts:59, the LRUCache under test, <<>> before new
    lruClock,     \* history: the number of LRUCache calls
    lastAccess,   \* history: key -> the call that last set or found it
    lastOp,       \* history: the last LRUCache call, <<>> before the first
    _assets,      \* particles.ts:550, the promises start() has to wait for
    _images,      \* particles.ts:539, url -> the state of the image element
    promises,     \* the promises the game hands to preload(), by number
    startPc,      \* the position of the start() call
    waited,       \* the length of _assets when start() began to wait
    listening,    \* particles.ts:1407, the input listeners are registered
    looping,      \* particles.ts:1446, the frame loop is requested
    _rng,         \* random.ts:3, the _state of the generator
    rngCalls,     \* history: the number of rand() calls
    arrays,       \* the arrays of the caller of shuffle, by identity
    lastSeed,     \* history: the last seed() call, <<>> before the first
    lastShuffle,  \* history: the last shuffle() call, <<>> before the first
    lastFrameTime, \* particles.ts:1433, the timestamp of the previous frame
    framePc,      \* the position of loop(): "idle" or in its "callback"
    frameDelta,   \* particles.ts:1438, the delta of the frame that is running
    frameLog,     \* history: one entry per frame
    _emitters,    \* particles.ts:12, the active emitters, by number
    emitters,     \* every ParticleEmitter constructed: its done, clock, particles
    lastRun,      \* history: the last frame's updateParticles / renderParticles
    bursts,       \* history: the number of burst() calls
    lastLine,     \* history: the last lineToPoints call and its result
    textures,     \* the TextureCache: canvas size, cursor and rects
    lastTex       \* history: the last TextureCache call

tweenVars == <<object, _tweens, sched, stepCount, lastStep, doneCount>>
timerVars == <<_timers, timerSched, timerDone>>
inputVars == <<_down, _pressed, _released, _pointer>>
cacheVars == <<_keys, lastWrite, keyOwner>>
drawVars  == <<_state, _stack, ctxT, ctxStack, _sprites, _textCursorCache, frames,
               calls, popsOnEmpty, cacheVars>>
clockVars == <<now, ticks, _delta>>
textVars == <<measured>>
sliceVars == <<_canvasSize, lastSlice>>
lruVars == <<lru, lruClock, lastAccess, lastOp>>
loadVars == <<_assets, _images, promises, startPc, waited, listening, looping>>
otherVars == <<sliceVars, lruVars, loadVars>>
randVars == <<_rng, rngCalls, arrays, lastSeed, lastShuffle>>
frameVars == <<lastFrameTime, framePc, frameDelta, frameLog>>
partVars == <<_emitters, emitters, lastRun, bursts>>
lineVars == <<lastLine>>
texVars == <<textures, lastTex>>
lateVars == <<partVars, lineVars, texVars>>
moreVars == <<randVars, frameVars, lateVars>>
vars == <<tweenVars, timerVars, inputVars, drawVars, clockVars, textVars, otherVars,
          moreVars>>

----------------------------------------------------------------------------
(* Bounds of the model.                                                    *)

MaxTweens == 2      \* tween() calls in one behaviour
MaxTimers == 2      \* delay() calls in one behaviour
MaxDelta  == 2      \* the largest delta of one frame tick
MaxTicks  == 3      \* frame ticks in one behaviour
MaxDepth  == 2      \* the deepest draw-state stack
MaxCoord  == 2      \* the points mapped lie in -MaxCoord..MaxCoord
MaxCalls  == 5      \* draw calls
MaxLen    == 3      \* the longest text measured
MaxWrites == 3      \* write() and writeLine() calls in one behaviour
MaxSlices == 3      \* draw9Slice() calls in one behaviour
MaxSize == 2        \* the largest maxSize of an LRUCache
MaxOps == 4         \* LRUCache calls in one behaviour
MaxTasks == 2       \* preload() calls of the game in one behaviour
MaxRand == 4        \* rand() calls in one behaviour
MaxArrays == 2      \* arrays in one behaviour

Deltas == {0, 1, MaxDelta}

----------------------------------------------------------------------------
(* JavaScript numbers.                                                     *)

Abs(n) == IF n < 0 THEN -n ELSE n

RECURSIVE GCD(_, _)
GCD(a, b) == IF b = 0 THEN a ELSE GCD(b, a % b)

NaN == [k |-> "nan", n |-> 0, d |-> 1]
Infinity == [k |-> "inf", n |-> 1, d |-> 1]

\* n / d in lowest terms, d > 0
Rat(n, d) ==
    LET g == GCD(Abs(n), d)
    IN  [k |-> "num", n |-> n \div g, d |-> d \div g]

Num(n) == Rat(n, 1)

IsNaN(x) == x.k = "nan"

\* a / b for integers a >= 0, b >= 0: 0/0 is NaN, a/0 is +Infinity
JsDiv(a, b) ==
    IF b = 0 THEN (IF a = 0 THEN NaN ELSE Infinity) ELSE Rat(a, b)

\* x < y; every comparison with NaN is false
JsLt(x, y) ==
    CASE IsNaN(x) \/ IsNaN(y) -> FALSE
      [] x.k = "inf" -> FALSE
      [] y.k = "inf" -> TRUE
      [] OTHER -> x.n * y.d < y.n * x.d

\* x + y, x - y, x * y on finite numbers and NaN
JsAdd(x, y) ==
    IF IsNaN(x) \/ IsNaN(y) THEN NaN ELSE Rat(x.n * y.d + y.n * x.d, x.d * y.d)

JsSub(x, y) ==
    IF IsNaN(x) \/ IsNaN(y) THEN NaN ELSE Rat(x.n * y.d - y.n * x.d, x.d * y.d)

JsMul(x, y) ==
    IF IsNaN(x) \/ IsNaN(y) THEN NaN ELSE Rat(x.n * y.n, x.d * y.d)

\* a clamp without its upper bound
clamp_Lower(min, max, value) == IF JsLt(value, min) THEN min ELSE value

clamp(min, max, value) ==
    IF JsLt(value, min) THEN min
    ELSE IF JsLt(max, value) THEN max
    ELSE value

----------------------------------------------------------------------------
(* Tweens.                                                                 *)

easeLinear(t) == t

easeInOut(t) ==
    LET t2 == JsMul(t, Num(2))
        u  == JsSub(t2, Num(1))
    IN  IF JsLt(t2, Num(1))
        THEN JsMul(Rat(1, 2), JsMul(t2, t2))
        ELSE JsMul(Rat(-1, 2), JsSub(JsMul(u, JsSub(u, Num(2))), Num(1)))

Easings == {"easeLinear", "easeInOut"}

ApplyEasing(easing, t) ==
    IF easing = "easeLinear" THEN easeLinear(t) ELSE easeInOut(t)

Keys == {"a", "b"}
NoId == "none"
GroupIds == {"t"}

\* the tween() calls a behaviour draws from: both easings, one and two
\* properties, two tweens of one group and an ungrouped tween that track a
\* common property, and a zero duration
TweenCalls ==
    {[to |-> [a |-> 4], duration |-> 4, easing |-> "easeLinear", id |-> "t"],
     [to |-> [a |-> 8, b |-> 0], duration |-> 2, easing |-> "easeLinear", id |-> "t"],
     [to |-> [b |-> 4], duration |-> 4, easing |-> "easeInOut", id |-> NoId],
     [to |-> [a |-> 2], duration |-> 0, easing |-> "easeLinear", id |-> NoId]}

\* the tween record pushed by tween()
NewTween(n, to, duration, easing, id) ==
    [num |-> n, to |-> to, from |-> [key \in DOMAIN to |-> object[key]],
     keys |-> DOMAIN to, duration |-> duration, elapsed |-> 0,
     easing |-> easing, id |-> id]

tween(to, duration, easing, id) ==
    /\ Len(sched) < MaxTweens
    /\ LET tw == NewTween(Len(sched) + 1, to, duration, easing, id)
       IN  /\ _tweens' = Append(_tweens, tw)
           /\ sched' = Append(sched, [to |-> to, from |-> tw.from,
                                      duration |-> duration, easing |-> easing,
                                      id |-> id, at |-> now, tick |-> ticks])
    /\ stepCount' = Append(stepCount, 0)
    /\ lastStep' = Append(lastStep, NaN)
    /\ doneCount' = Append(doneCount, 0)
    /\ UNCHANGED <<object, clockVars, textVars, otherVars, moreVars, timerVars, inputVars, drawVars>>

\* a variant that leaves t unclamped
TweenT_Unclamped(tw) == JsDiv(tw.elapsed, tw.duration)

\* t of one tween in the current tick
TweenT(tw) == clamp(Num(0), Num(1), JsDiv(tw.elapsed, tw.duration))

\* the value written to one tracked property
TweenValue(tw, key) ==
    LET k == ApplyEasing(tw.easing, TweenT(tw))
        from == tw.from[key]
        to == Num(tw.to[key])
    IN  JsAdd(from, JsMul(JsSub(to, from), k))

\* the inner loop over tween.keys
WriteKeys(obj, tw) ==
    [key \in DOMAIN obj |->
        IF key \in tw.keys THEN TweenValue(tw, key) ELSE obj[key]]

Advance(tw, dt) == [tw EXCEPT !.elapsed = @ + dt]

\* a variant that fires the completion only past the duration
TweenFinished_Late(tw) == tw.elapsed > tw.duration

TweenFinished(tw) == tw.elapsed >= tw.duration

\* a variant that never removes a tween
TweenKept_All(tw) == TRUE

TweenKept(tw) == tw.elapsed < tw.duration

\* the object after the loop has visited the tweens tws[i..]
RECURSIVE WriteTweens(_, _, _)
WriteTweens(obj, tws, i) ==
    IF i > Len(tws) THEN obj
    ELSE WriteTweens(WriteKeys(obj, tws[i]), tws, i + 1)

Nums(tws) == {tws[i].num : i \in DOMAIN tws}

updateTweens(dt) ==
    LET tws == [i \in DOMAIN _tweens |-> Advance(_tweens[i], dt)]
        fin == {tws[i].num : i \in {j \in DOMAIN tws : TweenFinished(tws[j])}}
        tOf(n) == TweenT(tws[CHOOSE i \in DOMAIN tws : tws[i].num = n])
    IN  /\ object' = WriteTweens(object, tws, 1)
        /\ stepCount' = [n \in DOMAIN stepCount |->
                           IF n \in Nums(tws) THEN stepCount[n] + 1
                           ELSE stepCount[n]]
        /\ lastStep' = [n \in DOMAIN lastStep |->
                          IF n \in Nums(tws) THEN tOf(n) ELSE lastStep[n]]
        /\ doneCount' = [n \in DOMAIN doneCount |->
                           IF n \in fin THEN doneCount[n] + 1 ELSE doneCount[n]]
        /\ _tweens' = SelectSeq(tws, TweenKept)
        /\ UNCHANGED sched

\* tweens.ts:77-92, what one pass of the loop of updateTweens does with the
\* tween it has advanced, in order: the writes of its keys, tween.callback(t),
\* and tween.done() when elapsed >= duration
VisitEvents(tw) ==
    IF TweenFinished(tw) THEN <<"write", "callback", "done">>
    ELSE <<"write", "callback">>

\* cancelTweens(id): every active tween of the group is applied at t = 1 (its
\* properties become its `to` values and its step callback runs once), its
\* completion fires, and it leaves the active set
\* a variant that leaves the property where the last tick put it
CancelValue_Abandon(tw, key) == object[key]

CancelValue(tw, key) == Num(tw.to[key])

CancelKeys(obj, tw) ==
    [key \in DOMAIN obj |->
        IF key \in tw.keys THEN CancelValue(tw, key) ELSE obj[key]]

RECURSIVE CancelWrites(_, _, _, _)
CancelWrites(obj, tws, id, i) ==
    IF i > Len(tws) THEN obj
    ELSE CancelWrites(IF tws[i].id = id THEN CancelKeys(obj, tws[i]) ELSE obj,
                      tws, id, i + 1)

cancelTweens(id) ==
    LET hit == {_tweens[i].num : i \in {j \in DOMAIN _tweens : _tweens[j].id = id}}
    IN  /\ object' = CancelWrites(object, _tweens, id, 1)
        /\ stepCount' = [n \in DOMAIN stepCount |->
                           IF n \in hit THEN stepCount[n] + 1 ELSE stepCount[n]]
        /\ lastStep' = [n \in DOMAIN lastStep |->
                          IF n \in hit THEN Num(1) ELSE lastStep[n]]
        /\ doneCount' = [n \in DOMAIN doneCount |->
                           IF n \in hit THEN doneCount[n] + 1 ELSE doneCount[n]]
        /\ _tweens' = SelectSeq(_tweens, LAMBDA tw : tw.id # id)
        /\ UNCHANGED <<sched, clockVars, textVars, otherVars, moreVars, timerVars, inputVars, drawVars>>

----------------------------------------------------------------------------
(* Timers.                                                                 *)

TimerDurations == {0, 2, 3}

delay(ms) ==
    /\ Len(timerSched) < MaxTimers
    /\ _timers' = Append(_timers, [num |-> Len(timerSched) + 1,
                                   duration |-> ms, elapsed |-> 0])
    /\ timerSched' = Append(timerSched, [duration |-> ms, at |-> now, tick |-> ticks])
    /\ timerDone' = Append(timerDone, 0)
    /\ UNCHANGED <<tweenVars, clockVars, textVars, otherVars, moreVars, inputVars, drawVars>>

TimerFinished(timer) == timer.elapsed >= timer.duration

\* a variant that never removes a timer
TimerKept_All(timer) == TRUE

TimerKept(timer) == timer.elapsed < timer.duration

updateTimers(dt) ==
    LET tms == [i \in DOMAIN _timers |-> Advance(_timers[i], dt)]
        fin == {tms[i].num : i \in {j \in DOMAIN tms : TimerFinished(tms[j])}}
    IN  /\ timerDone' = [n \in DOMAIN timerDone |->
                           IF n \in fin THEN timerDone[n] + 1 ELSE timerDone[n]]
        /\ _timers' = SelectSeq(tms, TimerKept)
        /\ UNCHANGED timerSched

----------------------------------------------------------------------------
(* Inputs.  A button is a key name or a pointer button index; the index i  *)
(* is written "#i" here, so that the key named "0" and the pointer button  *)
(* 0 stay distinct members of one set, as they are in a JavaScript Set.    *)

KeyNames == {"Enter", "0"}
PointerButton == [i \in {0, 1} |-> IF i = 0 THEN "#0" ELSE "#1"]
AllButtons == KeyNames \cup {PointerButton[i] : i \in DOMAIN PointerButton}

down(btn) == btn \in _down
pressed(btn) == btn \in _pressed
released(btn) == btn \in _released

\* a variant that forgets the held buttons too
updateInputs_ClearsDown ==
    /\ _pressed' = {}
    /\ _released' = {}
    /\ _down' = {}
    /\ UNCHANGED _pointer

updateInputs ==
    /\ _pressed' = {}
    /\ _released' = {}
    /\ UNCHANGED <<_down, _pointer>>

\* the canvas is CanvasSize wide and high and is displayed at rect
CanvasSize == 2
CanvasRect == [x |-> 1, y |-> 1, width |-> 4, height |-> 4]
ClientCoords == {2, 4}

Floor(q) == Num(q.n \div q.d)

screenToCanvas(x, y) ==
    LET scaleX == Rat(CanvasSize, CanvasRect.width)
        scaleY == Rat(CanvasSize, CanvasRect.height)
    IN  [x |-> JsMul(Num(x - CanvasRect.x), scaleX),
         y |-> JsMul(Num(y - CanvasRect.y), scaleY)]

onPointerMove(clientX, clientY) ==
    /\ _pointer' = [x |-> Floor(screenToCanvas(clientX, clientY).x),
                    y |-> Floor(screenToCanvas(clientX, clientY).y)]
    /\ UNCHANGED <<_down, _pressed, _released>>
    /\ UNCHANGED <<tweenVars, timerVars, drawVars, clockVars, textVars, otherVars, moreVars>>

\* a variant that records the button as down and reports no press
onPointerDown_DownOnly(button) ==
    /\ _down' = _down \cup {PointerButton[button]}
    /\ UNCHANGED <<_pressed, _released, _pointer>>
    /\ UNCHANGED <<tweenVars, timerVars, drawVars, clockVars, textVars, otherVars, moreVars>>

onPointerDown(button) ==
    /\ _down' = _down \cup {PointerButton[button]}
    /\ _pressed' = _pressed \cup {PointerButton[button]}
    /\ UNCHANGED <<_released, _pointer>>
    /\ UNCHANGED <<tweenVars, timerVars, drawVars, clockVars, textVars, otherVars, moreVars>>

\* a variant that takes the button index for the name of a key
onPointerUp_AsKey(button) ==
    /\ _down' = _down \ {IF button = 0 THEN "0" ELSE "1"}
    /\ _released' = _released \cup {IF button = 0 THEN "0" ELSE "1"}
    /\ UNCHANGED <<_pressed, _pointer>>
    /\ UNCHANGED <<tweenVars, timerVars, drawVars, clockVars, textVars, otherVars, moreVars>>

onPointerUp(button) ==
    /\ _down' = _down \ {PointerButton[button]}
    /\ _released' = _released \cup {PointerButton[button]}
    /\ UNCHANGED <<_pressed, _pointer>>
    /\ UNCHANGED <<tweenVars, timerVars, drawVars, clockVars, textVars, otherVars, moreVars>>

onKeyDown(key) ==
    /\ _down' = _down \cup {key}
    /\ _pressed' = _pressed \cup {key}
    /\ UNCHANGED <<_released, _pointer>>
    /\ UNCHANGED <<tweenVars, timerVars, drawVars, clockVars, textVars, otherVars, moreVars>>

\* a variant that reports the release and keeps the key down
onKeyUp_StaysDown(key) ==
    /\ _released' = _released \cup {key}
    /\ UNCHANGED <<_down, _pressed, _pointer>>
    /\ UNCHANGED <<tweenVars, timerVars, drawVars, clockVars, textVars, otherVars, moreVars>>

onKeyUp(key) ==
    /\ _down' = _down \ {key}
    /\ _released' = _released \cup {key}
    /\ UNCHANGED <<_pressed, _pointer>>
    /\ UNCHANGED <<tweenVars, timerVars, drawVars, clockVars, textVars, otherVars, moreVars>>

----------------------------------------------------------------------------
(* The frame tick.                                                         *)

\* the assignments of _update(dt)
UpdateState(dt) ==
    /\ ticks < MaxTicks
    /\ _delta' = dt
    /\ updateTweens(dt)
    /\ updateTimers(dt)
    /\ updateInputs
    /\ now' = now + dt
    /\ ticks' = ticks + 1

_update(dt) ==
    /\ UpdateState(dt)
    /\ UNCHANGED <<drawVars, textVars, otherVars, moreVars>>

----------------------------------------------------------------------------
(* The draw state.  A string is a sequence of characters; an optional      *)
(* argument is <<>> when it is left out and <<v>> when it is given.        *)

black == <<"b", "l", "a", "c", "k">>
red == <<"r", "e", "d">>
blue == <<"b", "l", "u", "e">>
transparent == <<"t", "r", "a", "n", "s", "p", "a", "r", "e", "n", "t">>

\* a fill that may be undefined
Undefined == [def |-> FALSE, s |-> <<>>]
Fill(s) == [def |-> TRUE, s |-> s]

\* a fill that is an object (a gradient or a pattern), by its identity
ObjectFill(id) == [def |-> TRUE, s |-> <<>>, obj |-> id]
IsObject(fill) == "obj" \in DOMAIN fill

\* fill as a condition: undefined and "" are falsy
Truthy(fill) == fill.def /\ (IsObject(fill) \/ fill.s # <<>>)

defaultFont ==
    [url |-> <<"f", "1">>, glyphWidth |-> 5, glyphHeight |-> 6, lineHeight |-> 7,
     glyphWidthsTable |-> [m |-> 6, i |-> 2]]

font2 ==
    [url |-> <<"f", "2">>, glyphWidth |-> 6, glyphHeight |-> 6, lineHeight |-> 6,
     glyphWidthsTable |-> [i |-> 5]]

Fonts == {defaultFont, font2}

\* the base state, with the font that start() installs
BaseState ==
    [x |-> 0, y |-> 0, w |-> Infinity, h |-> Infinity, color |-> black,
     textX |-> 0, textY |-> 0, textShadowColor |-> Undefined,
     font |-> defaultFont]

Last(seq) == seq[Len(seq)]
Front(seq) == SubSeq(seq, 1, Len(seq) - 1)

\* a save that pushes nothing
SaveState_Skip(fx, fy, fw, fh) == UNCHANGED <<ctxStack, _stack, frames>>

\* the state push and the surface's own save
SaveState(fx, fy, fw, fh) ==
    /\ ctxStack' = Append(ctxStack, ctxT)
    /\ _stack' = Append(_stack, _state)
    /\ frames' = Append(frames, [pre |-> _state, depth |-> Len(_stack),
                                 x |-> fx, y |-> fy, w |-> fw, h |-> fh])

save ==
    /\ SaveState(0, 0, <<>>, <<>>)
    /\ UNCHANGED <<_state, ctxT, _sprites, _textCursorCache>>
    /\ UNCHANGED <<tweenVars, timerVars, inputVars, clockVars, textVars, otherVars, moreVars, cacheVars, popsOnEmpty>>

\* a restore that keeps the text cursor of the state it discards
restore_KeepsCursor ==
    /\ IF Len(ctxStack) > 0
       THEN ctxT' = Last(ctxStack) /\ ctxStack' = Front(ctxStack)
       ELSE UNCHANGED <<ctxT, ctxStack>>
    /\ IF Len(_stack) > 0
       THEN /\ _state' = [Last(_stack) EXCEPT !.textX = _state.textX,
                                              !.textY = _state.textY]
            /\ _stack' = Front(_stack)
       ELSE UNCHANGED <<_state, _stack>>
    /\ frames' = IF Len(frames) > 0 THEN Front(frames) ELSE frames
    /\ popsOnEmpty' = IF Len(_stack) > 0 THEN popsOnEmpty ELSE popsOnEmpty + 1
    /\ UNCHANGED <<_sprites, _textCursorCache>>
    /\ UNCHANGED <<tweenVars, timerVars, inputVars, clockVars, textVars, otherVars, moreVars, cacheVars>>

\* a restore that falls back to the base state when the stack is empty
restore_ResetsOnEmpty ==
    /\ IF Len(ctxStack) > 0
       THEN ctxT' = Last(ctxStack) /\ ctxStack' = Front(ctxStack)
       ELSE UNCHANGED <<ctxT, ctxStack>>
    /\ IF Len(_stack) > 0
       THEN _state' = Last(_stack) /\ _stack' = Front(_stack)
       ELSE _state' = BaseState /\ UNCHANGED _stack
    /\ frames' = IF Len(frames) > 0 THEN Front(frames) ELSE frames
    /\ popsOnEmpty' = IF Len(_stack) > 0 THEN popsOnEmpty ELSE popsOnEmpty + 1
    /\ UNCHANGED <<_sprites, _textCursorCache>>
    /\ UNCHANGED <<tweenVars, timerVars, inputVars, clockVars, textVars, otherVars, moreVars, cacheVars>>

\* a pop that leaves the current state as it is
RestoreState_KeepsState ==
    /\ IF Len(ctxStack) > 0
       THEN ctxT' = Last(ctxStack) /\ ctxStack' = Front(ctxStack)
       ELSE UNCHANGED <<ctxT, ctxStack>>
    /\ _stack' = IF Len(_stack) > 0 THEN Front(_stack) ELSE _stack
    /\ UNCHANGED _state
    /\ frames' = IF Len(frames) > 0 THEN Front(frames) ELSE frames
    /\ popsOnEmpty' = IF Len(_stack) > 0 THEN popsOnEmpty ELSE popsOnEmpty + 1

\* the surface's own restore and the state pop
RestoreState ==
    /\ IF Len(ctxStack) > 0
       THEN ctxT' = Last(ctxStack) /\ ctxStack' = Front(ctxStack)
       ELSE UNCHANGED <<ctxT, ctxStack>>
    /\ IF Len(_stack) > 0
       THEN _state' = Last(_stack) /\ _stack' = Front(_stack)
       ELSE UNCHANGED <<_state, _stack>>
    /\ frames' = IF Len(frames) > 0 THEN Front(frames) ELSE frames
    /\ popsOnEmpty' = IF Len(_stack) > 0 THEN popsOnEmpty ELSE popsOnEmpty + 1

restore ==
    /\ RestoreState
    /\ UNCHANGED <<_sprites, _textCursorCache>>
    /\ UNCHANGED <<tweenVars, timerVars, inputVars, clockVars, textVars, otherVars, moreVars, cacheVars>>

font(f) ==
    /\ _state' = [_state EXCEPT !.font = f]
    /\ UNCHANGED <<_stack, ctxT, ctxStack, _sprites, _textCursorCache, frames>>
    /\ UNCHANGED <<tweenVars, timerVars, inputVars, clockVars, textVars, otherVars, moreVars, cacheVars, popsOnEmpty>>

\* col and shadow are optional
cursor(x, y, col, shadow) ==
    /\ _state' = [_state EXCEPT
                    !.textX = x,
                    !.textY = y,
                    !.color = IF col = <<>> THEN @ ELSE col[1],
                    !.textShadowColor = IF shadow = <<>> THEN @ ELSE shadow[1]]
    /\ UNCHANGED <<_stack, ctxT, ctxStack, _sprites, _textCursorCache, frames>>
    /\ UNCHANGED <<tweenVars, timerVars, inputVars, clockVars, textVars, otherVars, moreVars, cacheVars, popsOnEmpty>>

color(c) ==
    /\ _state' = [_state EXCEPT !.color = c]
    /\ UNCHANGED <<_stack, ctxT, ctxStack, _sprites, _textCursorCache, frames>>
    /\ UNCHANGED <<tweenVars, timerVars, inputVars, clockVars, textVars, otherVars, moreVars, cacheVars, popsOnEmpty>>

\* w || inherited: a width of 0 counts as left out
Coalesce_Falsy(w, inherited) ==
    IF w = <<>> \/ w[1] = 0 THEN inherited ELSE Num(w[1])

\* w ?? inherited
Coalesce(w, inherited) == IF w = <<>> THEN inherited ELSE Num(w[1])

\* w and h are optional
view(x, y, w, h) ==
    /\ SaveState(x, y, w, h)
    /\ ctxT' = <<ctxT[1] + x, ctxT[2] + y>>
    /\ _state' = [_state EXCEPT
                    !.x = @ + x,
                    !.y = @ + y,
                    !.w = Coalesce(w, @),
                    !.h = Coalesce(h, @)]
    /\ UNCHANGED <<_sprites, _textCursorCache>>
    /\ UNCHANGED <<tweenVars, timerVars, inputVars, clockVars, textVars, otherVars, moreVars, cacheVars, popsOnEmpty>>

end == restore

local(globalX, globalY) == [x |-> globalX - _state.x, y |-> globalY - _state.y]

\* a global() that adds the offsets of the other axis
global_Swapped(localX, localY) ==
    [x |-> localX + _state.y, y |-> localY + _state.x]

global(localX, localY) == [x |-> localX + _state.x, y |-> localY + _state.y]

bounds == [x |-> _state.x, y |-> _state.y, w |-> _state.w, h |-> _state.h]

----------------------------------------------------------------------------
(* The frame tick with per-step callbacks that schedule.  _update above is *)
(* the tick of callbacks that schedule nothing; here tween.callback may    *)
(* call tween() or delay() while the loop of updateTweens is running.      *)

\* what a per-step callback does
Callbacks == {"none", "tween", "delay"}

\* the tween() call and the delay() call of a callback
SpawnedTween == [to |-> [b |-> 4], duration |-> 2, easing |-> "easeLinear", id |-> NoId]
SpawnedDelay == [ms |-> 2]

\* tweens.ts:49-68, the tween record pushed by tween() when the object is obj
TweenOf(n, call, obj, cb) ==
    [num |-> n, to |-> call.to, from |-> [key \in DOMAIN call.to |-> obj[key]],
     keys |-> DOMAIN call.to, duration |-> call.duration, elapsed |-> 0,
     easing |-> call.easing, id |-> call.id, callback |-> cb]

\* the history of a tween() call: in holds the delta of the tick that was
\* running when the call was made, if one was
SchedOf(tw, in) ==
    [to |-> tw.to, from |-> tw.from, duration |-> tw.duration,
     easing |-> tw.easing, id |-> tw.id, at |-> now, tick |-> ticks, in |-> in]

\* tween(object, to, duration, easing, callback) between two ticks
tweenWith(call, cb) ==
    /\ Len(sched) < MaxTweens
    /\ LET tw == TweenOf(Len(sched) + 1, call, object, cb)
       IN  /\ _tweens' = Append(_tweens, tw)
           /\ sched' = Append(sched, SchedOf(tw, <<>>))
    /\ stepCount' = Append(stepCount, 0)
    /\ lastStep' = Append(lastStep, NaN)
    /\ doneCount' = Append(doneCount, 0)
    /\ UNCHANGED <<object, clockVars, textVars, otherVars, moreVars, timerVars,
                   inputVars, drawVars>>

\* delay(ms) between two ticks
delayWith(ms) ==
    /\ Len(timerSched) < MaxTimers
    /\ _timers' = Append(_timers, [num |-> Len(timerSched) + 1,
                                   duration |-> ms, elapsed |-> 0])
    /\ timerSched' = Append(timerSched, [duration |-> ms, at |-> now,
                                         tick |-> ticks, in |-> <<>>])
    /\ timerDone' = Append(timerDone, 0)
    /\ UNCHANGED <<tweenVars, clockVars, textVars, otherVars, moreVars, inputVars,
                   drawVars>>

\* tweens.ts:77-92, the body of the loop for the tween at index i: st holds
\* the arrays and the object as the loop has left them so far
VisitTween(st, i, dt) ==
    LET tw == Advance(st.tws[i], dt)
        obj == WriteKeys(st.obj, tw)
        n == tw.num
        spawnsTween == tw.callback = "tween" /\ Len(st.sched) < MaxTweens
        spawnsDelay == tw.callback = "delay" /\ Len(st.timerSched) < MaxTimers
        new == TweenOf(Len(st.sched) + 1, SpawnedTween, obj, "none")
        tm == [num |-> Len(st.timerSched) + 1, duration |-> SpawnedDelay.ms,
               elapsed |-> 0]
        visited == [st.tws EXCEPT ![i] = tw]
        bump(f) == [f EXCEPT ![n] = @ + 1]
    IN  [tws   |-> IF spawnsTween THEN Append(visited, new) ELSE visited,
         obj   |-> obj,
         sched |-> IF spawnsTween THEN Append(st.sched, SchedOf(new, <<dt>>))
                   ELSE st.sched,
         step  |-> IF spawnsTween THEN Append(bump(st.step), 0) ELSE bump(st.step),
         last  |-> IF spawnsTween THEN Append([st.last EXCEPT ![n] = TweenT(tw)], NaN)
                   ELSE [st.last EXCEPT ![n] = TweenT(tw)],
         done  |-> LET d == IF TweenFinished(tw) THEN bump(st.done) ELSE st.done
                   IN  IF spawnsTween THEN Append(d, 0) ELSE d,
         tms   |-> IF spawnsDelay THEN Append(st.tms, tm) ELSE st.tms,
         timerSched |->
             IF spawnsDelay
             THEN Append(st.timerSched, [duration |-> tm.duration, at |-> now,
                                         tick |-> ticks, in |-> <<dt>>])
             ELSE st.timerSched,
         timerDone |-> IF spawnsDelay THEN Append(st.timerDone, 0) ELSE st.timerDone]

\* tweens.ts:76, for (let tween of _tweens): the array iterator reads the
\* length of the array before every step
LoopEnd(st) == Len(st.tws)

RECURSIVE TweenLoop(_, _, _)
TweenLoop(st, i, dt) ==
    IF i > LoopEnd(st) THEN st
    ELSE TweenLoop(VisitTween(st, i, dt), i + 1, dt)

\* particles.ts:1378-1383, _update(dt): updateTweens, then updateTimers over
\* the timers as updateTweens left them, then updateInputs
_updateLive(dt) ==
    LET st == TweenLoop([tws |-> _tweens, obj |-> object, sched |-> sched,
                         step |-> stepCount, last |-> lastStep, done |-> doneCount,
                         tms |-> _timers, timerSched |-> timerSched,
                         timerDone |-> timerDone], 1, dt)
        tms == [i \in DOMAIN st.tms |-> Advance(st.tms[i], dt)]
        fin == {tms[i].num : i \in {j \in DOMAIN tms : TimerFinished(tms[j])}}
    IN  /\ ticks < MaxTicks
        /\ _delta' = dt
        /\ object' = st.obj
        /\ _tweens' = SelectSeq(st.tws, TweenKept)
        /\ sched' = st.sched
        /\ stepCount' = st.step
        /\ lastStep' = st.last
        /\ doneCount' = st.done
        /\ timerSched' = st.timerSched
        /\ timerDone' = [n \in DOMAIN st.timerDone |->
                           IF n \in fin THEN st.timerDone[n] + 1
                           ELSE st.timerDone[n]]
        /\ _timers' = SelectSeq(tms, TimerKept)
        /\ updateInputs
        /\ now' = now + dt
        /\ ticks' = ticks + 1
        /\ UNCHANGED <<drawVars, textVars, otherVars, moreVars>>

----------------------------------------------------------------------------
(* Text.                                                                   *)

\* a number below ten, printed
Digits == <<"0", "1", "2", "3", "4", "5", "6", "7", "8", "9">>

\* _keys after createCacheKey(fill)
Register(keys, fill) ==
    IF IsObject(fill) /\ \A i \in DOMAIN keys : keys[i] # fill.obj
    THEN Append(keys, fill.obj) ELSE keys

\* createCacheKey(fill) as a template prints it, for a fill that has its
\* key in keys: a string is its own key, undefined prints as "undefined",
\* an object prints the number it got
createCacheKey(keys, fill) ==
    IF ~fill.def THEN <<"u", "n", "d", "e", "f", "i", "n", "e", "d">>
    ELSE IF IsObject(fill)
         THEN <<Digits[(CHOOSE i \in DOMAIN keys : keys[i] = fill.obj)]>>
         ELSE fill.s

CacheKeyOf(fill) == createCacheKey(Register(_keys, fill), fill)

TextKeyIn(keys, f, col, shadow, text) ==
    <<"t", "e", "x", "t", ":">> \o f.url \o <<"/">> \o createCacheKey(keys, col)
        \o <<"/">> \o createCacheKey(keys, shadow) \o <<"/">> \o text

TextKey(f, col, shadow, text) ==
    TextKeyIn(Register(Register(_keys, col), shadow), f, col, shadow, text)

TintKeyIn(keys, f, col) ==
    <<"t", "i", "n", "t", ":">> \o f.url \o <<"/">> \o createCacheKey(keys, col)

TintKey(f, col) == TintKeyIn(Register(_keys, col), f, col)

\* glyphWidthsTable[char] ?? glyphWidth
GlyphAdvance(f, char) ==
    IF char \in DOMAIN f.glyphWidthsTable
    THEN f.glyphWidthsTable[char] ELSE f.glyphWidth

\* the cursor after the rendering loop has visited text[i..]
RECURSIVE RenderCursor(_, _, _, _)
RenderCursor(f, text, i, cur) ==
    IF i > Len(text) THEN cur
    ELSE IF text[i] = "\n"
         THEN RenderCursor(f, text, i + 1, [x |-> 0, y |-> cur.y + f.lineHeight])
         ELSE RenderCursor(f, text, i + 1,
                           [x |-> cur.x + GlyphAdvance(f, text[i]), y |-> cur.y])

\* the loop of measure over text[i..]
RECURSIVE MeasureLoop(_, _, _, _)
MeasureLoop(f, text, i, box) ==
    IF i > Len(text) THEN box
    ELSE IF text[i] = "\n"
         THEN MeasureLoop(f, text, i + 1,
                          [lineWidth |-> 0,
                           boxWidth |-> IF box.boxWidth >= box.lineWidth
                                        THEN box.boxWidth ELSE box.lineWidth,
                           boxHeight |-> box.boxHeight + f.lineHeight])
         ELSE MeasureLoop(f, text, i + 1,
                          [box EXCEPT !.lineWidth = @ + GlyphAdvance(f, text[i])])

\* a measure that counts the line breaks only
measure_BreaksOnly(text) ==
    LET box == MeasureLoop(_state.font, text, 1,
                           [lineWidth |-> 0, boxWidth |-> 0, boxHeight |-> 0])
    IN  [x |-> 0, y |-> 0,
         w |-> IF box.boxWidth >= box.lineWidth THEN box.boxWidth ELSE box.lineWidth,
         h |-> box.boxHeight]

\* a measure that leaves the last line out of the width
measure_ClosedLines(text) ==
    LET box == MeasureLoop(_state.font, text, 1,
                           [lineWidth |-> 0, boxWidth |-> 0,
                            boxHeight |-> _state.font.lineHeight])
    IN  [x |-> 0, y |-> 0, w |-> box.boxWidth, h |-> box.boxHeight]

measure(text) ==
    LET box == MeasureLoop(_state.font, text, 1,
                           [lineWidth |-> 0, boxWidth |-> 0,
                            boxHeight |-> _state.font.lineHeight])
    IN  [x |-> 0, y |-> 0,
         w |-> IF box.boxWidth >= box.lineWidth THEN box.boxWidth ELSE box.lineWidth,
         h |-> box.boxHeight]

\* a cache that never hits
CacheMiss_Always(key) == TRUE

\* if (!canvas), for canvas = _sprites[key]
CacheMiss(key) == key \notin _sprites

\* char.charCodeAt(0), for the characters the texts are made of
charCodeAt(char) ==
    CASE char = "\t" -> 9
      [] char = "\n" -> 10
      [] char = "/" -> 47
      [] char = "0" -> 48
      [] char = "a" -> 97
      [] char = "b" -> 98
      [] char = "i" -> 105
      [] char = "m" -> 109

\* the image each glyph of text is copied from, in the order of the loop:
\* the font's own image for a code below 32, the tinted copy otherwise
GlyphImages(f, tinted, text) ==
    LET glyphs == SelectSeq(text, LAMBDA char : char # "\n")
    IN  [i \in DOMAIN glyphs |->
           [code |-> charCodeAt(glyphs[i]),
            img |-> IF charCodeAt(glyphs[i]) < 32 THEN f.url ELSE tinted]]

\* the draws of one glyph: three of the shadow, one of the glyph
GlyphDraws(text, shadow) ==
    Cardinality({i \in DOMAIN text : text[i] # "\n"})
        * (IF Truthy(shadow) THEN 4 ELSE 1)

\* what write(text, x, y, col, shadow) leaves behind; col and shadow are
\* fills, shadow may be undefined
WriteResult(text, x, y, col, shadow) ==
    LET f == _state.font
        keys == Register(Register(_keys, col), shadow)
        key == TextKeyIn(keys, f, col, shadow, text)
        miss == CacheMiss(key)
        shade == IF Truthy(shadow) THEN shadow ELSE Fill(transparent)
        tints == {TintKeyIn(keys, f, col), TintKeyIn(keys, f, shade)}
        cur == IF miss THEN RenderCursor(f, text, 1, [x |-> 0, y |-> 0])
               ELSE _textCursorCache[key]
        args == [text |-> text, x |-> x, y |-> y, col |-> col, shadow |-> shadow,
                 font |-> f]
    IN  [keys |-> keys,
         sprites |-> IF miss THEN _sprites \cup {key} \cup tints ELSE _sprites,
         cursors |-> IF miss
                     THEN [c \in DOMAIN _textCursorCache \cup {key} |->
                             IF c = key THEN cur ELSE _textCursorCache[c]]
                     ELSE _textCursorCache,
         state |-> [_state EXCEPT
                      !.textX = x + cur.x + GlyphAdvance(f, " "),
                      !.textY = y + cur.y],
         last |-> [args |-> args, key |-> key, miss |-> miss,
                   tints |-> IF miss THEN Cardinality(tints \ _sprites) ELSE 0,
                   glyphs |-> IF miss THEN GlyphDraws(text, shadow) ELSE 0,
                   images |-> IF miss THEN GlyphImages(f, TintKeyIn(keys, f, col), text)
                              ELSE <<>>,
                   blits |-> 1,
                   line |-> FALSE,
                   after |-> [x |-> x + cur.x + GlyphAdvance(f, " "),
                              y |-> y + cur.y],
                   stored |-> [x |-> x + cur.x + GlyphAdvance(f, " "),
                               y |-> y + cur.y]],
         owner |-> IF miss
                   THEN [c \in DOMAIN keyOwner \cup {key} |->
                           IF c = key THEN args ELSE keyOwner[c]]
                   ELSE keyOwner]

write(text, x, y, col, shadow) ==
    LET r == WriteResult(text, x, y, col, shadow)
    IN  /\ _keys' = r.keys
        /\ _sprites' = r.sprites
        /\ _textCursorCache' = r.cursors
        /\ _state' = r.state
        /\ lastWrite' = <<r.last>>
        /\ keyOwner' = r.owner
        /\ UNCHANGED <<_stack, ctxT, ctxStack, frames>>
        /\ UNCHANGED <<tweenVars, timerVars, inputVars, clockVars, textVars, otherVars, moreVars, popsOnEmpty>>

writeLine(text, x, y, col, shadow) ==
    LET r == WriteResult(text, x, y, col, shadow)
    IN  /\ _keys' = r.keys
        /\ _sprites' = r.sprites
        /\ _textCursorCache' = r.cursors
        /\ _state' = [r.state EXCEPT !.textX = x,
                                     !.textY = @ + _state.font.lineHeight]
        /\ lastWrite' =
              <<[r.last EXCEPT
                   !.line = TRUE,
                   !.stored = [x |-> x,
                               y |-> r.state.textY + _state.font.lineHeight]]>>
        /\ keyOwner' = r.owner
        /\ UNCHANGED <<_stack, ctxT, ctxStack, frames>>
        /\ UNCHANGED <<tweenVars, timerVars, inputVars, clockVars, textVars, otherVars, moreVars, popsOnEmpty>>

----------------------------------------------------------------------------
(* Nine slices.                                                            *)

\* a Math.max that returns its first argument
MathMax_First(a, b) == a

MathMax(a, b) == IF a >= b THEN a ELSE b

\* a whole number as a template prints it
RECURSIVE NumberToString(_)
NumberToString(n) ==
    IF n < 0 THEN <<"-">> \o NumberToString(0 - n)
    ELSE IF n < 10 THEN <<Digits[n + 1]>>
    ELSE NumberToString(n \div 10) \o <<Digits[(n % 10) + 1]>>

\* tests.ts:133-140 draws a sprite of a sheet; two sprites of one image
panel ==
    [url |-> <<"s">>, x |-> 0, y |-> 0, w |-> 6, h |-> 6,
     center |-> [x |-> 2, y |-> 2, w |-> 2, h |-> 2]]

frame ==
    [url |-> <<"s">>, x |-> 6, y |-> 0, w |-> 6, h |-> 8,
     center |-> [x |-> 1, y |-> 2, w |-> 3, h |-> 3]]

NineSlices == {panel, frame}

\* particles.ts:1160-1163, the sizes of the fixed columns and rows
Borders(sprite) ==
    [left   |-> sprite.center.x,
     top    |-> sprite.center.y,
     right  |-> sprite.w - sprite.center.w - sprite.center.x,
     bottom |-> sprite.h - sprite.center.h - sprite.center.y]

\* particles.ts:1166-1167
SliceSize(sprite, w, h) ==
    [w |-> MathMax(w, Borders(sprite).left + Borders(sprite).right),
     h |-> MathMax(h, Borders(sprite).top + Borders(sprite).bottom)]

\* particles.ts:1170
SliceKey(sprite, w, h) ==
    <<"9", "s", "l", "i", "c", "e", ":">> \o sprite.url \o <<"/">>
        \o NumberToString(sprite.x) \o <<",">> \o NumberToString(sprite.y) \o <<":">>
        \o NumberToString(sprite.w) \o <<",">> \o NumberToString(sprite.h) \o <<"/">>
        \o NumberToString(w) \o <<",">> \o NumberToString(h)

\* particles.ts:1177-1203, the nine drawImage calls that compose the bitmap
\* of a miss: the source cell in the image and the destination cell in the
\* bitmap, for the clamped size
SliceCells(sprite, size) ==
    LET b == Borders(sprite)
        cw == sprite.center.w
        ch == sprite.center.h
        sx0 == sprite.x
        sx1 == sx0 + b.left
        sx2 == sprite.w - b.right
        sy0 == sprite.y
        sy1 == sy0 + b.top
        sy2 == sy0 + sprite.h - b.bottom
        dx0 == 0
        dx1 == dx0 + b.left
        dx2 == dx0 + size.w - b.right
        dy0 == 0
        dy1 == dy0 + b.top
        dy2 == dy0 + size.h - b.bottom
        dcw == size.w - b.left - b.right
        dch == size.h - b.top - b.bottom
        cell(sx, sy, sw, sh, dx, dy, dw, dh) ==
            [sx |-> sx, sy |-> sy, sw |-> sw, sh |-> sh,
             dx |-> dx, dy |-> dy, dw |-> dw, dh |-> dh]
    IN  <<cell(sx0, sy0, b.left, b.top, dx0, dy0, b.left, b.top),
          cell(sx2, sy0, b.right, b.top, dx2, dy0, b.right, b.top),
          cell(sx0, sy2, b.left, b.bottom, dx0, dy2, b.left, b.bottom),
          cell(sx2, sy2, b.right, b.bottom, dx2, dy2, b.right, b.bottom),
          cell(sx1, sy0, cw, b.top, dx1, dy0, dcw, b.top),
          cell(sx1, sy2, cw, b.bottom, dx1, dy2, dcw, b.bottom),
          cell(sx0, sy1, b.left, ch, dx0, dy1, b.left, dch),
          cell(sx2, sy1, b.right, ch, dx2, dy1, b.right, dch),
          cell(sx1, sy1, cw, ch, dx1, dy1, dcw, dch)>>

draw9Slice(sprite, x, y, w, h) ==
    LET size == SliceSize(sprite, w, h)
        key  == SliceKey(sprite, size.w, size.h)
        miss == CacheMiss(key)
        sizes == IF miss
                 THEN [k \in DOMAIN _canvasSize \cup {key} |->
                          IF k = key THEN size ELSE _canvasSize[k]]
                 ELSE _canvasSize
    IN  /\ _sprites' = _sprites \cup {key}
        /\ _canvasSize' = sizes
        /\ lastSlice' =
              <<[sprite |-> sprite, w |-> w, h |-> h,
                 key    |-> key,
                 miss   |-> miss,
                 parts  |-> IF miss THEN 9 ELSE 0,
                 cells  |-> IF miss THEN SliceCells(sprite, size) ELSE <<>>,
                 canvas |-> sizes[key],
                 drawn  |-> [x |-> x, y |-> y, w |-> size.w, h |-> size.h]]>>
        /\ UNCHANGED <<_state, _stack, ctxT, ctxStack, _textCursorCache, frames,
                       popsOnEmpty, cacheVars>>
        /\ UNCHANGED <<tweenVars, timerVars, inputVars, clockVars, textVars,
                       lruVars, loadVars, moreVars>>

----------------------------------------------------------------------------
(* LRUCache.                                                               *)

\* the null of a node's next and prev, and of head and tail
Null == 0

\* [f EXCEPT ![k] = v] that also adds k
Put(f, k, v) == [j \in DOMAIN f \cup {k} |-> IF j = k THEN v ELSE f[j]]

\* Map.delete
Delete(f, k) == [j \in DOMAIN f \ {k} |-> f[j]]

\* utils.ts:60-63, new LRUCache(maxSize): heap holds the nodes by identity
NewCache(maxSize) ==
    [maxSize |-> maxSize, head |-> Null, tail |-> Null,
     cache |-> <<>>, heap |-> <<>>]

\* the entries of a cache: key -> value
Contents(c) == [k \in DOMAIN c.cache |-> c.heap[c.cache[k]].value]

\* utils.ts:65-85, set(key, value) with id the identity of the new node;
\* threw is the TypeError of reading a property of null
LRUSet(c, key, value, id) ==
    IF key \in DOMAIN c.cache THEN [c |-> c, threw |-> FALSE]
    ELSE
    LET node == [key |-> key, value |-> value, next |-> Null, prev |-> Null]
        c0 == [c EXCEPT !.heap = Put(@, id, node)]
        c1 == IF Cardinality(DOMAIN c0.cache) = 0
              THEN [c0 EXCEPT !.head = id, !.tail = id,
                              !.cache = Put(@, key, id)]
              ELSE c0
        full == Cardinality(DOMAIN c1.cache) >= c1.maxSize
    IN  IF full /\ c1.tail = Null THEN [c |-> c1, threw |-> TRUE]
        ELSE
        LET c2 == IF full
                  THEN [c1 EXCEPT !.cache = Delete(@, c1.heap[c1.tail].key),
                                  !.tail = c1.heap[c1.tail].prev]
                  ELSE c1
        IN  IF (full /\ c2.tail = Null) \/ c2.head = Null
            THEN [c |-> c2, threw |-> TRUE]
            ELSE
            LET c3 == IF full THEN [c2 EXCEPT !.heap[c2.tail].next = Null]
                      ELSE c2
                c4 == [c3 EXCEPT !.heap[c3.head].prev = id]
                c5 == [c4 EXCEPT !.heap[id].next = c4.head]
            IN  [c |-> [c5 EXCEPT !.head = id, !.cache = Put(@, key, id)],
                 threw |-> FALSE]

\* utils.ts:87-105, get(key): result is <<>> for undefined
LRUGet(c, key) ==
    IF key \notin DOMAIN c.cache
    THEN [c |-> c, result |-> <<>>, threw |-> FALSE]
    ELSE
    LET id == c.cache[key]
        node == c.heap[id]
        thrown(d) == [c |-> d, result |-> <<>>, threw |-> TRUE]
    IN  IF id = c.head
        THEN [c |-> c, result |-> <<node.value>>, threw |-> FALSE]
        ELSE IF id = c.tail /\ node.prev = Null
        THEN thrown([c EXCEPT !.tail = Null])
        ELSE IF id # c.tail /\ node.prev = Null
        THEN thrown(c)
        ELSE IF id # c.tail /\ node.next = Null
        THEN thrown([c EXCEPT !.heap[node.prev].next = Null])
        ELSE
        LET c1 == IF id = c.tail
                  THEN [c EXCEPT !.tail = node.prev,
                                 !.heap[node.prev].next = Null]
                  ELSE [[c EXCEPT !.heap[node.prev].next = node.next]
                           EXCEPT !.heap[node.next].prev = node.prev]
        IN  IF c1.head = Null THEN thrown(c1)
            ELSE
            LET c2 == [c1 EXCEPT !.heap[c1.head].prev = id]
                c3 == [[c2 EXCEPT !.heap[id].next = c2.head]
                          EXCEPT !.heap[id].prev = Null]
            IN  [c |-> [c3 EXCEPT !.head = id],
                 result |-> <<node.value>>, threw |-> FALSE]

\* utils.ts:107-110
LRUClear(c) == [c EXCEPT !.head = Null, !.tail = Null, !.cache = <<>>]

\* new LRUCache(maxSize)
lruNew(maxSize) ==
    /\ lru = <<>>
    /\ lru' = <<NewCache(maxSize)>>
    /\ UNCHANGED <<lruClock, lastAccess, lastOp>>
    /\ UNCHANGED <<tweenVars, timerVars, inputVars, drawVars, clockVars, textVars,
                   sliceVars, loadVars, moreVars>>

\* the history of a call: the entries and the access stamps it met
OpRecord(op, key, value) ==
    [op |-> op, key |-> key, value |-> value,
     before |-> Contents(lru[1]), stamps |-> lastAccess]

\* lru.set(key, value); a set counts as an access of its key, and moved is
\* the last call that put the key's node at the head of the list
lruSet(key, value) ==
    /\ lru # <<>>
    /\ LET r == LRUSet(lru[1], key, value, lruClock + 1)
           isNew == key \notin DOMAIN lru[1].cache
       IN  /\ lru' = <<r.c>>
           /\ lruClock' = lruClock + 1
           /\ lastAccess' =
                 IF r.threw THEN lastAccess
                 ELSE Put(lastAccess, key,
                          [call  |-> lruClock + 1,
                           moved |-> IF isNew THEN lruClock + 1
                                     ELSE lastAccess[key].moved])
           /\ lastOp' = <<OpRecord("set", key, <<value>>) @@
                          [result |-> <<>>, threw |-> r.threw,
                           after |-> Contents(r.c)]>>
    /\ UNCHANGED <<tweenVars, timerVars, inputVars, drawVars, clockVars, textVars,
                   sliceVars, loadVars, moreVars>>

\* lru.get(key)
lruGet(key) ==
    /\ lru # <<>>
    /\ LET r == LRUGet(lru[1], key)
       IN  /\ lru' = <<r.c>>
           /\ lruClock' = lruClock + 1
           /\ lastAccess' =
                 IF r.result = <<>> THEN lastAccess
                 ELSE Put(lastAccess, key,
                          [call |-> lruClock + 1, moved |-> lruClock + 1])
           /\ lastOp' = <<OpRecord("get", key, <<>>) @@
                          [result |-> r.result, threw |-> r.threw,
                           after |-> Contents(r.c)]>>
    /\ UNCHANGED <<tweenVars, timerVars, inputVars, drawVars, clockVars, textVars,
                   sliceVars, loadVars, moreVars>>

\* lru.clear()
lruClear ==
    /\ lru # <<>>
    /\ lru' = <<LRUClear(lru[1])>>
    /\ lruClock' = lruClock + 1
    /\ lastAccess' = <<>>
    /\ lastOp' = <<OpRecord("clear", "", <<>>) @@
                   [result |-> <<>>, threw |-> FALSE, after |-> <<>>]>>
    /\ UNCHANGED <<tweenVars, timerVars, inputVars, drawVars, clockVars, textVars,
                   sliceVars, loadVars, moreVars>>

----------------------------------------------------------------------------
(* Preloading and start().                                                 *)

\* the images of the fonts and of the sprite sheet
Urls == {f.url : f \in Fonts} \cup {panel.url}

\* the promises the game hands to preload()
Promises == {1, 2}

\* particles.ts:687-691, _images after imageByUrl(url): a new image starts
\* to load when it gets its src
imageByUrl(url) ==
    [_images EXCEPT ![url] = IF @ = "new" THEN "loading" ELSE @]

\* particles.ts:730-735, the promise of an image: it settles with the next
\* load or error event of the image
ImagePromise(url) == [kind |-> "image", ref |-> url, st |-> "pending"]

\* particles.ts:713-739, preload(url), preload(font), preload(sprites)
preloadUrl(url) ==
    /\ _images' = imageByUrl(url)
    /\ _assets' = Append(_assets, ImagePromise(url))

\* particles.ts:738, preload(promise)
preloadPromise(p) ==
    /\ _assets' = Append(_assets, [kind |-> "promise", ref |-> p, st |-> promises[p]])
    /\ UNCHANGED _images

\* the promises of _assets after kind/ref settled with outcome st
Settled(kind, ref, st) ==
    [i \in DOMAIN _assets |->
        IF _assets[i].kind = kind /\ _assets[i].ref = ref /\ _assets[i].st = "pending"
        THEN [_assets[i] EXCEPT !.st = st]
        ELSE _assets[i]]

\* the load (ok) or error event of an image
imageEvent(url, ok) ==
    /\ _images[url] = "loading"
    /\ _images' = [_images EXCEPT ![url] = IF ok THEN "loaded" ELSE "error"]
    /\ _assets' = Settled("image", url, IF ok THEN "resolved" ELSE "rejected")
    /\ UNCHANGED <<promises, startPc, waited, listening, looping>>
    /\ UNCHANGED <<tweenVars, timerVars, inputVars, drawVars, clockVars, textVars,
                   sliceVars, lruVars, moreVars>>

\* a promise of the game resolves (ok) or rejects
settle(p, ok) ==
    /\ promises[p] = "pending"
    /\ promises' = [promises EXCEPT ![p] = IF ok THEN "resolved" ELSE "rejected"]
    /\ _assets' = Settled("promise", p, IF ok THEN "resolved" ELSE "rejected")
    /\ UNCHANGED <<_images, startPc, waited, listening, looping>>
    /\ UNCHANGED <<tweenVars, timerVars, inputVars, drawVars, clockVars, textVars,
                   sliceVars, lruVars, moreVars>>

\* a Promise.all that waits until no promise is pending
PromiseAll_Settled(ps) ==
    IF \E i \in DOMAIN ps : ps[i].st = "pending" THEN "pending" ELSE "resolved"

\* particles.ts:746, Promise.all(ps)
PromiseAll(ps) ==
    IF \E i \in DOMAIN ps : ps[i].st = "rejected" THEN "rejected"
    ELSE IF \A i \in DOMAIN ps : ps[i].st = "resolved" THEN "resolved"
    ELSE "pending"

\* the promises start() waits for: Promise.all reads _assets when it is called
Awaited == SubSeq(_assets, 1, waited)

\* particles.ts:1452-1463, start({font}) up to its await
start(f) ==
    /\ startPc = "idle"
    /\ _state' = [_state EXCEPT !.font = f]
    /\ preloadUrl(f.url)
    /\ waited' = Len(_assets) + 1
    /\ startPc' = "waiting"
    /\ UNCHANGED <<promises, listening, looping>>
    /\ UNCHANGED <<_stack, ctxT, ctxStack, _sprites, _textCursorCache, frames,
                   calls, popsOnEmpty, cacheVars>>
    /\ UNCHANGED <<tweenVars, timerVars, inputVars, clockVars, textVars,
                   sliceVars, lruVars, moreVars>>

\* particles.ts:1464-1466, start() after its await: resize, addEventListeners
\* and startLoop; the canvas size is no state of this model
startResume ==
    /\ startPc = "waiting"
    /\ PromiseAll(Awaited) = "resolved"
    /\ listening' = TRUE
    /\ looping' = TRUE
    /\ startPc' = "started"
    /\ UNCHANGED <<_assets, _images, promises, waited>>
    /\ UNCHANGED <<tweenVars, timerVars, inputVars, drawVars, clockVars, textVars,
                   sliceVars, lruVars, moreVars>>

\* the await of start() throws: the promise of start() rejects
startReject ==
    /\ startPc = "waiting"
    /\ PromiseAll(Awaited) = "rejected"
    /\ startPc' = "rejected"
    /\ UNCHANGED <<_assets, _images, promises, waited, listening, looping>>
    /\ UNCHANGED <<tweenVars, timerVars, inputVars, drawVars, clockVars, textVars,
                   sliceVars, lruVars, moreVars>>

----------------------------------------------------------------------------
(* The full reset.                                                         *)

\* particles.ts:1389-1402, _reset(): the images, the bitmap cache, the draw
\* state, the assets, the tweens and the inputs are reset, the frame request
\* is cancelled and the listeners are removed; clear() erases the pixels of
\* the canvas and is no state of this model
_reset ==
    /\ framePc = "idle"
    /\ _images' = [url \in Urls |-> "new"]
    /\ _sprites' = {}
    /\ _state' = IF Len(_stack) > 0 THEN _stack[1] ELSE _state
    /\ _stack' = <<>>
    /\ frames' = <<>>
    /\ _assets' = <<>>
    /\ _tweens' = <<>>
    /\ _down' = {} /\ _pressed' = {} /\ _released' = {}
    /\ looping' = FALSE
    /\ listening' = FALSE
    /\ UNCHANGED <<object, sched, stepCount, lastStep, doneCount>>
    /\ UNCHANGED <<timerVars, _pointer, clockVars, textVars>>
    /\ UNCHANGED <<ctxT, ctxStack, _textCursorCache, calls, popsOnEmpty, cacheVars>>
    /\ UNCHANGED <<sliceVars, lruVars, promises, startPc, waited, moreVars>>

----------------------------------------------------------------------------
(* Random numbers.                                                         *)

\* random.ts:3, a value Math.ceil(Math.random() * Number.MAX_SAFE_INTEGER)
\* can give
InitialState == 625341585

\* a 32-bit integer as its two 16-bit halves, and back (ToInt32)
Half == 65536
Halves(v) == [hi |-> (v \div Half) % Half, lo |-> v % Half]
Int32(b) == (IF b.hi >= 32768 THEN b.hi - Half ELSE b.hi) * Half + b.lo

\* a ^ b for 0 <= a, b < 2^16
RECURSIVE Xor16(_, _)
Xor16(a, b) ==
    IF a = 0 THEN b
    ELSE IF b = 0 THEN a
    ELSE 2 * Xor16(a \div 2, b \div 2) + ((a + b) % 2)

BitXor(a, b) == [hi |-> Xor16(a.hi, b.hi), lo |-> Xor16(a.lo, b.lo)]

\* b << 13, b >>> 17 and b << 5 on 32 bits
Shl13(b) == [hi |-> ((b.hi % 8) * 8192 + b.lo \div 8) % Half, lo |-> (b.lo % 8) * 8192]
Shr17(b) == [hi |-> 0, lo |-> b.hi \div 2]
Shl5(b)  == [hi |-> ((b.hi % 2048) * 32 + b.lo \div 2048) % Half, lo |-> (b.lo % 2048) * 32]

\* random.ts:18, _state after rand()
Xorshift(v) ==
    LET a == BitXor(Halves(v), Shl13(Halves(v)))
        b == BitXor(a, Shr17(a))
    IN  Int32(BitXor(b, Shl5(b)))

\* random.ts:25-27 with random.ts:19: Math.floor((v >>> 0) / 4294967296 * max)
\* for v the _state that rand() left
randomInt(v, max) ==
    (Halves(v).hi * max + (Halves(v).lo * max) \div Half) \div Half

\* a seed without its assert
Seeded_Unchecked(value, state) == value

\* random.ts:10-11, _state after seed(value)
Seeded(value, state) == IF value # 0 THEN value ELSE state

\* random.ts:9-12, seed(value): threw holds the message of the Error
seed(value) ==
    /\ _rng' = Seeded(value, _rng)
    /\ lastSeed' =
          <<[value |-> value, before |-> _rng,
             threw |-> IF value # 0 THEN <<>>
                       ELSE <<"seed value must be non-zero">>]>>
    /\ UNCHANGED <<rngCalls, arrays, lastShuffle>>
    /\ UNCHANGED <<tweenVars, timerVars, inputVars, drawVars, clockVars, textVars,
                   otherVars, frameVars, lateVars>>

\* [array[m], array[i]] = [array[i], array[m]], for 0-based m and i
Swap(array, m, i) ==
    [array EXCEPT ![m + 1] = array[i + 1], ![i + 1] = array[m + 1]]

\* random.ts:50-53, the loop of shuffle: the array and _state after it
RECURSIVE ShuffleLoop(_, _, _)
ShuffleLoop(array, m, v) ==
    IF m = 0 THEN [array |-> array, state |-> v]
    ELSE LET w == Xorshift(v)
         IN  ShuffleLoop(Swap(array, m - 1, randomInt(w, m)), m - 1, w)

\* an array = [...array] that keeps the array of the caller
Spread_Same(id) == id

\* random.ts:47, array = [...array]: the identity of the copy
Spread(id) == Len(arrays) + 1

\* random.ts:46-56, shuffle(array) for the array with identity id
shuffle(id) ==
    LET copy == Spread(id)
        r == ShuffleLoop(arrays[id], Len(arrays[id]), _rng)
    IN  /\ arrays' = [j \in DOMAIN arrays \cup {copy} |->
                         IF j = copy THEN r.array ELSE arrays[j]]
        /\ _rng' = r.state
        /\ rngCalls' = rngCalls + Len(arrays[id])
        /\ lastShuffle' = <<[given |-> id, before |-> arrays[id],
                             seed |-> _rng, returned |-> copy]>>
        /\ UNCHANGED lastSeed
        /\ UNCHANGED <<tweenVars, timerVars, inputVars, drawVars, clockVars,
                       textVars, otherVars, frameVars, lateVars>>

\* the caller makes an array
newArray(a) ==
    /\ arrays' = Append(arrays, a)
    /\ UNCHANGED <<_rng, rngCalls, lastSeed, lastShuffle>>
    /\ UNCHANGED <<tweenVars, timerVars, inputVars, drawVars, clockVars, textVars,
                   otherVars, frameVars, lateVars>>

\* random.ts:25-27, randomInt(max): rand() moves _state
randomIntCall(max) ==
    /\ _rng' = Xorshift(_rng)
    /\ rngCalls' = rngCalls + 1
    /\ UNCHANGED <<arrays, lastSeed, lastShuffle>>
    /\ UNCHANGED <<tweenVars, timerVars, inputVars, drawVars, clockVars, textVars,
                   otherVars, frameVars, lateVars>>

----------------------------------------------------------------------------
(* The frame loop.                                                         *)

\* particles.ts:1437, lastFrameTime || time: 0 counts as not set
Earlier(last, time) == IF last # 0 THEN last ELSE time

\* particles.ts:1435-1440, loop(time) up to the call of the callback:
\* requestAnimationFrame(loop), the delta and save()
loopBegin(time) ==
    /\ looping
    /\ framePc = "idle"
    /\ ticks < MaxTicks
    /\ lastFrameTime' = time
    /\ frameDelta' = time - Earlier(lastFrameTime, time)
    /\ SaveState(0, 0, <<>>, <<>>)
    /\ framePc' = "callback"
    /\ frameLog' = Append(frameLog,
          [time |-> time, delta |-> time - Earlier(lastFrameTime, time),
           state |-> _state, depth |-> Len(_stack) + 1,
           pressed |-> _pressed, released |-> _released, left |-> <<>>])
    /\ UNCHANGED <<_state, ctxT, _sprites, _textCursorCache, calls, popsOnEmpty,
                   cacheVars>>
    /\ UNCHANGED <<tweenVars, timerVars, inputVars, clockVars, textVars, otherVars,
                   randVars, lateVars>>

\* particles.ts:1442-1443, loop(time) after the callback: restore() and
\* _update(delta)
loopEnd ==
    /\ framePc = "callback"
    /\ RestoreState
    /\ UpdateState(frameDelta)
    /\ framePc' = "idle"
    /\ frameLog' = [frameLog EXCEPT ![Len(frameLog)].left =
          <<[state |-> _state, depth |-> Len(_stack),
             top |-> IF Len(_stack) > 0 THEN <<Last(_stack)>> ELSE <<>>]>>]
    /\ UNCHANGED <<lastFrameTime, frameDelta>>
    /\ UNCHANGED <<_sprites, _textCursorCache, calls, cacheVars>>
    /\ UNCHANGED <<textVars, otherVars, randVars, lateVars>>

----------------------------------------------------------------------------
(* Specifications.                                                         *)

TexKeys == {"a", "b"}

\* utils.ts:285-288, a TextureCache as constructed: a canvas of the default
\* size of a canvas element, the cursor at 0, no rects
NewTextureCache == [width |-> 300, height |-> 150, cursor |-> 0, rects |-> <<>>]

Init ==
    /\ object = [key \in Keys |-> Num(0)]
    /\ _tweens = <<>>
    /\ sched = <<>>
    /\ stepCount = <<>>
    /\ lastStep = <<>>
    /\ doneCount = <<>>
    /\ now = 0
    /\ ticks = 0
    /\ _timers = <<>>
    /\ timerSched = <<>>
    /\ timerDone = <<>>
    /\ _delta = 0
    /\ _down = {}
    /\ _pressed = {}
    /\ _released = {}
    /\ _pointer = [x |-> NaN, y |-> NaN]
    /\ _state = BaseState
    /\ _stack = <<>>
    /\ ctxT = <<0, 0>>
    /\ ctxStack = <<>>
    /\ _sprites = {}
    /\ _textCursorCache = <<>>
    /\ frames = <<>>
    /\ calls = 0
    /\ popsOnEmpty = 0
    /\ measured = <<>>
    /\ _keys = <<>>
    /\ lastWrite = <<>>
    /\ keyOwner = <<>>
    /\ _canvasSize = <<>>
    /\ lastSlice = <<>>
    /\ lru = <<>>
    /\ lruClock = 0
    /\ lastAccess = <<>>
    /\ lastOp = <<>>
    /\ _assets = <<>>
    /\ _images = [url \in Urls |-> "new"]
    /\ promises = [p \in Promises |-> "pending"]
    /\ startPc = "idle"
    /\ waited = 0
    /\ listening = FALSE
    /\ looping = FALSE
    /\ _rng = InitialState
    /\ rngCalls = 0
    /\ arrays = <<>>
    /\ lastSeed = <<>>
    /\ lastShuffle = <<>>
    /\ lastFrameTime = 0
    /\ framePc = "idle"
    /\ frameDelta = 0
    /\ frameLog = <<>>
    /\ _emitters = <<>>
    /\ emitters = <<>>
    /\ lastRun = <<>>
    /\ bursts = 0
    /\ lastLine = <<>>
    /\ textures = NewTextureCache
    /\ lastTex = [op |-> "new", key |-> "", prev |-> "", rect |-> <<>>,
                  creates |-> [k \in TexKeys |-> 0]]

Tick == \E dt \in Deltas : _update(dt)

\* tweens: tween(), cancelTweens() and frame ticks
StartTween ==
    \E call \in TweenCalls : tween(call.to, call.duration, call.easing, call.id)

Cancel == \E id \in GroupIds : cancelTweens(id)

NextTween == StartTween \/ Cancel \/ Tick

SpecTween == Init /\ [][NextTween]_vars

\* timers: delay() and frame ticks
StartTimer == \E ms \in TimerDurations : delay(ms)

NextTimer == StartTimer \/ Tick

SpecTimer == Init /\ [][NextTimer]_vars

\* inputs: the five event handlers and frame ticks
PointerMove == \E cx \in ClientCoords, cy \in ClientCoords : onPointerMove(cx, cy)
PointerDown == \E button \in DOMAIN PointerButton : onPointerDown(button)
PointerUp == \E button \in DOMAIN PointerButton : onPointerUp(button)
KeyDown == \E key \in KeyNames : onKeyDown(key)
KeyUp == \E key \in KeyNames : onKeyUp(key)

NextInput == PointerMove \/ PointerDown \/ PointerUp \/ KeyDown \/ KeyUp \/ Tick

SpecInput == Init /\ [][NextInput]_vars

\* the draw state: save/restore, view/end, font, color, cursor and write
ViewCalls ==
    {[x |-> 2, y |-> 1, w |-> <<3>>, h |-> <<>>],
     [x |-> -1, y |-> 2, w |-> <<>>, h |-> <<4>>],
     [x |-> 1, y |-> -2, w |-> <<0>>, h |-> <<>>]}
Texts == {<<"m">>, <<"i", "\n", "a">>}
Called == calls < MaxCalls /\ calls' = calls + 1

Save == Called /\ Len(_stack) < MaxDepth /\ save
Restore == Called /\ restore
View ==
    /\ Called
    /\ Len(_stack) < MaxDepth
    /\ \E call \in ViewCalls : view(call.x, call.y, call.w, call.h)
End == Called /\ end
SetFont == Called /\ \E f \in Fonts : font(f)
SetColor == Called /\ \E c \in {black, red} : color(c)
SetCursor ==
    /\ Called
    /\ \E args \in {<<<<>>, <<>>>>, <<<<red>>, <<Fill(blue)>>>>} :
          cursor(1, 2, args[1], args[2])
Write ==
    /\ Called
    /\ \E text \in Texts :
          write(text, _state.textX, _state.textY, Fill(_state.color),
                _state.textShadowColor)

NextDraw ==
    Save \/ Restore \/ View \/ End \/ SetFont \/ SetColor \/ SetCursor \/ Write

SpecDraw == Init /\ [][NextDraw]_vars

\* measuring: measure() under either font
Chars == {"m", "i", "\n"}
MeasureTexts == UNION {[1..n -> Chars] : n \in 0..MaxLen}

PickFont == (\E f \in Fonts : font(f)) /\ UNCHANGED calls

Measure ==
    /\ \E text \in MeasureTexts :
          measured' = <<[text |-> text, font |-> _state.font, box |-> measure(text)]>>
    /\ UNCHANGED <<tweenVars, timerVars, inputVars, drawVars, clockVars, otherVars, moreVars>>

NextMeasure == PickFont \/ Measure

SpecMeasure == Init /\ [][NextMeasure]_vars

\* writing: write() and writeLine() under either font
WriteCalls ==
    {[text |-> <<"m">>, col |-> Fill(red), shadow |-> Fill(<<"b", "/", "i">>)],
     [text |-> <<"i", "/", "m">>, col |-> Fill(red), shadow |-> Fill(<<"b">>)],
     [text |-> <<"i", "\n", "a">>, col |-> ObjectFill(1), shadow |-> Undefined],
     [text |-> <<"i", "\n", "a">>, col |-> Fill(<<"0">>), shadow |-> Undefined]}

\* the coordinates given, none for the stored text cursor
Positions == {<<>>, <<1, 2>>}
PosX(pos) == IF pos = <<>> THEN _state.textX ELSE pos[1]
PosY(pos) == IF pos = <<>> THEN _state.textY ELSE pos[2]

Wrote == calls < MaxWrites /\ calls' = calls + 1

WriteText ==
    /\ Wrote
    /\ \E call \in WriteCalls, pos \in Positions :
          write(call.text, PosX(pos), PosY(pos), call.col, call.shadow)

WriteLineText ==
    /\ Wrote
    /\ \E call \in WriteCalls, pos \in Positions :
          writeLine(call.text, PosX(pos), PosY(pos), call.col, call.shadow)

NextText == WriteText \/ WriteLineText \/ PickFont

SpecText == Init /\ [][NextText]_vars

----------------------------------------------------------------------------
(* What the tween claims speak of, read off the history variables.         *)

\* the sum of the deltas since tween n was scheduled
Elapsed(n) == now - sched[n].at

\* the frame ticks since tween n was scheduled
TicksSince(n) == ticks - sched[n].tick

\* t = clamp(0, 1, e / d), computed case by case
Progress(e, d) ==
    IF d = 0 THEN (IF e = 0 THEN NaN ELSE Num(1))
    ELSE IF e >= d THEN Num(1)
    ELSE Rat(e, d)

\* from + (to - from) * easing(t) for tween n once e ms have elapsed, from
\* the values of the tween() call
ExpectedAt(n, key, e) ==
    LET r == sched[n]
        k == ApplyEasing(r.easing, Progress(e, r.duration))
    IN  JsAdd(r.from[key], JsMul(JsSub(Num(r.to[key]), r.from[key]), k))

Expected(n, key) == ExpectedAt(n, key, Elapsed(n))

IsActive(n) == n \in Nums(_tweens)

\* a tween scheduled after n that is active too tracks key
Overwritten(n, key) ==
    \E i \in DOMAIN _tweens : _tweens[i].num > n /\ key \in _tweens[i].keys

\* some active tween tracks key
Tracked(key) == \E i \in DOMAIN _tweens : key \in _tweens[i].keys

\* C1 as claimed: after every frame tick each tracked property of every
\* active tween equals from + (to - from) * easing(t), with from the value
\* captured by tween() and t = clamp(0, 1, elapsed / duration) for elapsed
\* the sum of the deltas since the tween was scheduled.
C1_AsClaimed ==
    [][Tick => \A n \in DOMAIN sched :
                 IsActive(n) =>
                    \A key \in DOMAIN sched[n].to :
                        object'[key] = ExpectedAt(n, key, now' - sched[n].at)]_vars

\* C1 amended: after every frame tick each tracked property of every tween
\* the tick advanced equals from + (to - from) * easing(t), unless a tween
\* scheduled later that the same tick advanced tracks the same property.
C1_Interpolation ==
    [][Tick => \A n \in DOMAIN sched :
                 IsActive(n) =>
                    \A key \in DOMAIN sched[n].to :
                        \/ Overwritten(n, key)
                        \/ object'[key] = ExpectedAt(n, key, now' - sched[n].at)]_vars

\* a tween from 0 to 4 over 4 ms with linear easing stands at 1 after 1 ms
C1_Witness ==
    \E n \in DOMAIN sched :
        /\ IsActive(n) /\ stepCount[n] = 1 /\ Elapsed(n) = 1
        /\ sched[n].easing = "easeLinear" /\ sched[n].duration = 4
        /\ sched[n].from["a"] = Num(0) /\ sched[n].to["a"] = 4
        /\ object["a"] = Num(1)

\* C2: a tween's completion fires exactly once, in the first frame tick at
\* which its elapsed time is >= its duration; that tick removes it from the
\* active set, and later ticks neither write its properties nor call its
\* step callback nor fire its completion.
C2_CompletesOnce ==
    /\ [](\A n \in DOMAIN sched :
            /\ doneCount[n] <= 1
            /\ IsActive(n) <=> doneCount[n] = 0
            /\ IsActive(n) /\ TicksSince(n) > 0 => Elapsed(n) < sched[n].duration)
    /\ [][Tick =>
            /\ \A n \in DOMAIN sched :
                  IF IsActive(n)
                  THEN /\ stepCount'[n] = stepCount[n] + 1
                       /\ doneCount'[n] = 1 <=> Elapsed(n)' >= sched[n].duration
                       /\ IsActive(n)' <=> Elapsed(n)' < sched[n].duration
                  ELSE /\ stepCount'[n] = stepCount[n]
                       /\ doneCount'[n] = doneCount[n]
                       /\ ~IsActive(n)'
            /\ \A key \in Keys : ~Tracked(key) => object'[key] = object[key]]_vars

\* an ungrouped tween has completed and a later tick has passed it by
C2_Witness ==
    \E n \in DOMAIN sched :
        /\ sched[n].id = NoId /\ sched[n].duration > 0
        /\ doneCount[n] = 1 /\ ~IsActive(n)
        /\ TicksSince(n) > stepCount[n]

\* the active tweens of group id
Members(id) == {_tweens[i].num : i \in {j \in DOMAIN _tweens : _tweens[j].id = id}}

\* the `to` values the tweens in ns give to key
Targets(ns, key) == {Num(sched[n].to[key]) : n \in {m \in ns : key \in DOMAIN sched[m].to}}

\* C3 as claimed: cancelTweens(id) sets every tracked property of every
\* active tween of group id to its `to` value, and the tweens of another
\* group or of none keep the current values of their properties.
C3_AsClaimed ==
    [][\A id \in GroupIds : cancelTweens(id) =>
          \A n \in DOMAIN sched : \A key \in DOMAIN sched[n].to :
              /\ n \in Members(id) => object'[key] = Num(sched[n].to[key])
              /\ IsActive(n) /\ n \notin Members(id) => object'[key] = object[key]]_vars

\* C3 amended: cancelTweens(id) sets every property that an active tween of
\* group id tracks to the `to` value of such a tween (of the only one, when
\* one tracks it), and leaves every other property as it is, so that a tween
\* of another group or of none keeps the current value of each property
\* that no cancelled tween tracks.
C3_FastForward ==
    [][\A id \in GroupIds : cancelTweens(id) =>
          \A key \in Keys :
              IF Targets(Members(id), key) = {}
              THEN object'[key] = object[key]
              ELSE object'[key] \in Targets(Members(id), key)]_vars

\* a tween of group "t" was cancelled halfway and stands at its `to` value,
\* while an ungrouped tween stays at its interpolated value
C3_Witness ==
    \E n, m \in DOMAIN sched :
        /\ sched[n].id = "t" /\ doneCount[n] = 1
        /\ 0 < Elapsed(n) /\ Elapsed(n) < sched[n].duration
        /\ object["a"] = Num(sched[n].to["a"])
        /\ sched[m].id = NoId /\ IsActive(m) /\ 0 < Elapsed(m)
        /\ object["b"] = Expected(m, "b")
        /\ object["b"] # Num(sched[m].to["b"])
        /\ object["b"] # sched[m].from["b"]

----------------------------------------------------------------------------
(* Timers.                                                                 *)

TimerActive(n) == \E i \in DOMAIN _timers : _timers[i].num = n

\* the sum of the deltas since timer n was created
TimerElapsed(n) == now - timerSched[n].at

\* C5: a timer made by delay(ms) never fires while the deltas since its
\* creation sum to less than ms, fires in the first frame tick at which
\* they sum to ms or more, and fires once however many ticks follow.
C5_TimerFiresOnce ==
    /\ [](\A n \in DOMAIN timerSched :
            /\ timerDone[n] <= 1
            /\ TimerActive(n) <=> timerDone[n] = 0
            /\ timerDone[n] = 1 => TimerElapsed(n) >= timerSched[n].duration
            /\ ticks > timerSched[n].tick /\ TimerElapsed(n) >= timerSched[n].duration
                 => timerDone[n] = 1)
    /\ [][Tick => \A n \in DOMAIN timerSched :
                    IF TimerActive(n)
                    THEN timerDone'[n] =
                           (IF now' - timerSched[n].at >= timerSched[n].duration
                            THEN 1 ELSE 0)
                    ELSE timerDone'[n] = timerDone[n]]_vars

\* delay(2) was ticked three times by 1 ms: it has fired, once
C5_Witness ==
    \E n \in DOMAIN timerSched :
        /\ timerSched[n].duration = 2
        /\ ticks - timerSched[n].tick = 3 /\ TimerElapsed(n) = 3
        /\ timerDone[n] = 1 /\ ~TimerActive(n)

----------------------------------------------------------------------------
(* Inputs.                                                                 *)

\* C6: a down event for a button makes down and pressed true of it; the
\* next frame tick makes pressed false and leaves down as it is; an up event
\* makes down false and released true; the next frame tick makes released
\* false.
C6_ButtonStates ==
    [][/\ \A key \in KeyNames :
            /\ onKeyDown(key) => down(key)' /\ pressed(key)'
            /\ onKeyUp(key) => ~down(key)' /\ released(key)'
       /\ \A i \in DOMAIN PointerButton :
            /\ onPointerDown(i) => down(PointerButton[i])' /\ pressed(PointerButton[i])'
            /\ onPointerUp(i) => ~down(PointerButton[i])' /\ released(PointerButton[i])'
       /\ Tick => \A b \in AllButtons :
                    /\ ~pressed(b)' /\ ~released(b)'
                    /\ down(b)' <=> down(b)]_vars

\* Enter went down and a tick followed: it is down and no longer pressed;
\* pointer button 0 went up after a tick: it is released and not down
C6_Witness ==
    /\ ticks > 0
    /\ down("Enter") /\ ~pressed("Enter")
    /\ released(PointerButton[0]) /\ ~down(PointerButton[0])
    /\ ~pressed(PointerButton[0])

\* C7: the frame-boundary reset empties pressed and released and leaves
\* down and the pointer position as they are.
C7_FrameReset ==
    [][Tick => /\ _pressed' = {} /\ _released' = {}
               /\ _down' = _down /\ _pointer' = _pointer]_vars

\* after a tick two buttons are held, none is pressed or released, and the
\* pointer stands where the last move put it
C7_Witness ==
    /\ ticks > 0 /\ _pressed = {} /\ _released = {}
    /\ Cardinality(_down) = 2
    /\ _pointer = [x |-> Num(1), y |-> Num(0)]

----------------------------------------------------------------------------
(* The draw state claims.                                                  *)

\* C8: the end() or restore() that closes a view() or save() puts every
\* field of the draw state back to its value just before the opening call,
\* and the stack back to its depth, whatever balanced pairs and font(),
\* color(), cursor() and write() calls came in between.
C8_RoundTrip ==
    [][restore /\ Len(frames) > 0 =>
          /\ _state' = Last(frames).pre
          /\ Len(_stack') = Last(frames).depth]_vars

\* a save() or view() opened from the base state, font2, red and a blue
\* shadow were set, "m" was written, and the closing call gave the base
\* state back
C8_Witness ==
    /\ _state = BaseState
    /\ _stack = <<>>
    /\ TextKey(font2, Fill(red), Fill(blue), <<"m">>) \in _sprites

\* C9: at every nesting depth local and global are inverse to each other
\* on the integer points.
C9_LocalGlobalInverse ==
    \A px \in -MaxCoord..MaxCoord, py \in -MaxCoord..MaxCoord :
        LET g == global(px, py)
            l == local(px, py)
        IN  /\ local(g.x, g.y) = [x |-> px, y |-> py]
            /\ global(l.x, l.y) = [x |-> px, y |-> py]

\* two views are open and the origin is off both axes by different amounts
C9_Witness ==
    /\ Len(_stack) = 2
    /\ \A i \in 1..2 : frames[i].x # 0
    /\ _state.x # 0 /\ _state.y # 0 /\ _state.x # _state.y

\* the offsets and sizes of the chain of open views
RECURSIVE ChainX(_)
ChainX(fs) == IF fs = <<>> THEN 0 ELSE ChainX(Front(fs)) + Last(fs).x

RECURSIVE ChainY(_)
ChainY(fs) == IF fs = <<>> THEN 0 ELSE ChainY(Front(fs)) + Last(fs).y

RECURSIVE ChainW(_)
ChainW(fs) ==
    IF fs = <<>> THEN Infinity
    ELSE IF Last(fs).w # <<>> THEN Num(Last(fs).w[1]) ELSE ChainW(Front(fs))

RECURSIVE ChainH(_)
ChainH(fs) ==
    IF fs = <<>> THEN Infinity
    ELSE IF Last(fs).h # <<>> THEN Num(Last(fs).h[1]) ELSE ChainH(Front(fs))

\* C10: bounds() is the sum of the offsets of the open views, with the
\* width and the height of the innermost view that gave one, else Infinity;
\* global(0, 0) is the same origin.
C10_Bounds ==
    /\ bounds = [x |-> ChainX(frames), y |-> ChainY(frames),
                 w |-> ChainW(frames), h |-> ChainH(frames)]
    /\ global(0, 0) = [x |-> ChainX(frames), y |-> ChainY(frames)]

\* view(2, 1, 3) then view(-1, 2, undefined, 4): the width is inherited
\* from the outer view, the height is the inner one's
C10_Witness ==
    /\ Len(frames) = 2
    /\ frames[1].w = <<3>> /\ frames[2].w = <<>> /\ frames[2].h = <<4>>
    /\ bounds = [x |-> 1, y |-> 3, w |-> Num(3), h |-> Num(4)]

\* C11: restore() and end() on the empty stack keep every field of the
\* current draw state and leave the stack empty, they are always possible,
\* a save() opened afterwards still gets its state back, and there is a
\* current draw state with all nine fields in every reachable state.
C11_EmptyRestore ==
    /\ [](DOMAIN _state = DOMAIN BaseState)
    /\ [](calls < MaxCalls => ENABLED Restore /\ ENABLED End)
    /\ [][restore /\ _stack = <<>> => _state' = _state /\ _stack' = <<>>]_vars
    /\ [][restore /\ popsOnEmpty > 0 /\ Len(frames) > 0 =>
            _state' = Last(frames).pre /\ Len(_stack') = Last(frames).depth]_vars

\* font2 and red were set, restore() met the empty stack twice, and the
\* state is still the one that was set
C11_Witness ==
    /\ calls = 4 /\ popsOnEmpty = 2
    /\ _stack = <<>>
    /\ _state = [BaseState EXCEPT !.font = font2, !.color = red]

----------------------------------------------------------------------------
(* The text claims.                                                        *)

\* the positions of the newline characters of text
Breaks(text) == {i \in DOMAIN text : text[i] = "\n"}

\* the line, counted from 0, that position i of text lies on
LineOf(text, i) == Cardinality({j \in Breaks(text) : j < i})

\* the sum of the widths of the characters of text at the positions in ps
RECURSIVE WidthOf(_, _, _)
WidthOf(f, text, ps) ==
    IF ps = {} THEN 0
    ELSE LET i == CHOOSE j \in ps : TRUE
         IN  GlyphAdvance(f, text[i]) + WidthOf(f, text, ps \ {i})

\* the width of line k of text
LineWidth(f, text, k) ==
    WidthOf(f, text, {i \in DOMAIN text \ Breaks(text) : LineOf(text, i) = k})

LineWidths(f, text) ==
    {LineWidth(f, text, k) : k \in 0..Cardinality(Breaks(text))}

Widest(ws) == CHOOSE w \in ws : \A v \in ws : v <= w

\* C12: for a text with n newline characters, the empty text and a text
\* that ends in a newline included, measure(text).h = lineHeight * (n + 1)
\* for the active font.
C12_MeasureHeight ==
    /\ \A text \in MeasureTexts :
          measure(text).h = _state.font.lineHeight * (Cardinality(Breaks(text)) + 1)
    /\ \A i \in DOMAIN measured :
          measured[i].box.h =
             measured[i].font.lineHeight * (Cardinality(Breaks(measured[i].text)) + 1)

\* "m" and two newlines were measured under font2: three lines of 6
C12_Witness ==
    /\ measured # <<>>
    /\ measured[1].text = <<"m", "\n", "\n">>
    /\ measured[1].font = font2
    /\ measured[1].box.h = 18

\* C13: measure(text).w is the width of the widest line of text, the last
\* line included, a line's width being the sum over its characters of
\* glyphWidthsTable[c] where defined and glyphWidth otherwise.
C13_MeasureWidth ==
    /\ \A text \in MeasureTexts :
          measure(text).w = Widest(LineWidths(_state.font, text))
    /\ \A i \in DOMAIN measured :
          /\ measured[i].box.w = Widest(LineWidths(measured[i].font, measured[i].text))
          /\ Breaks(measured[i].text) = {} =>
                measured[i].box.w =
                   WidthOf(measured[i].font, measured[i].text, DOMAIN measured[i].text)

\* "i", newline, "m" was measured under the default font: the last line is
\* the widest
C13_Witness ==
    /\ measured # <<>>
    /\ measured[1].text = <<"i", "\n", "m">>
    /\ measured[1].font = defaultFont
    /\ measured[1].box.w = 6

\* the width of the last line of text
LastLineWidth(f, text) == LineWidth(f, text, Cardinality(Breaks(text)))

\* C14: write(text, x, y, ...) leaves the text cursor at
\* (x + widthOfLastLine(text) + spaceWidth, y + lineHeight * newlines(text)),
\* on a cache miss and on a cache hit alike, and that is the cursor the
\* draw state stores.
C14_CursorAfterWrite ==
    \A i \in DOMAIN lastWrite :
        LET w == lastWrite[i]
            a == w.args
        IN  /\ w.after = [x |-> a.x + LastLineWidth(a.font, a.text)
                                    + GlyphAdvance(a.font, " "),
                          y |-> a.y + a.font.lineHeight * Cardinality(Breaks(a.text))]
            /\ ~w.line => w.stored = w.after

\* C15: writeLine(text, x, y, ...) stores the text cursor (x, y + lineHeight),
\* whatever the number of lines of text.
C15_LineCursor ==
    \A i \in DOMAIN lastWrite :
        LET w == lastWrite[i]
            a == w.args
        IN  w.line => w.stored = [x |-> a.x, y |-> a.y + a.font.lineHeight]

\* C16: a write() with the arguments and the font of the write() before it
\* is a cache hit: it adds no bitmap and no cursor to the caches, gives no
\* object a key, tints nothing, draws no glyph, blits once, and leaves the
\* text cursor where the first call left it.
C16_SecondWriteHits ==
    [][(WriteText /\ lastWrite # <<>> /\ lastWrite'[1].args = lastWrite[1].args) =>
          /\ ~lastWrite'[1].miss
          /\ lastWrite'[1].key = lastWrite[1].key
          /\ lastWrite'[1].tints = 0
          /\ lastWrite'[1].glyphs = 0
          /\ lastWrite'[1].blits = 1
          /\ _sprites' = _sprites
          /\ _textCursorCache' = _textCursorCache
          /\ _keys' = _keys
          /\ _state'.textX = lastWrite[1].after.x
          /\ _state'.textY = lastWrite[1].after.y]_vars

\* "m" was written twice at (1, 2) in red with a shadow: the second call
\* hit the entry the first one made
C16_Witness ==
    /\ calls = 2
    /\ lastWrite # <<>>
    /\ ~lastWrite[1].line /\ ~lastWrite[1].miss
    /\ lastWrite[1].args.text = <<"m">>
    /\ keyOwner[lastWrite[1].key] = lastWrite[1].args
    /\ Cardinality(DOMAIN _textCursorCache) = 1

\* what the cache key is made from
KeyTuple(a) == <<a.font.url, a.col, a.shadow, a.text>>

\* C17: a write() never finds its key in the cache unless the entry was made
\* from the same (font URL, color, shadow, text): calls that differ in one
\* of the four never share a key.
C17_CollisionFree ==
    \A i \in DOMAIN lastWrite :
        KeyTuple(keyOwner[lastWrite[i].key]) = KeyTuple(lastWrite[i].args)

----------------------------------------------------------------------------
(* Nine slices: the size of the bitmap.                                    *)

SliceSizes == {1, 4, 5}

Sliced == calls < MaxSlices /\ calls' = calls + 1

Draw9Slice ==
    /\ Sliced
    /\ \E sprite \in NineSlices, w \in SliceSizes, h \in SliceSizes :
          draw9Slice(sprite, 1, 2, w, h)

NextSlice == Draw9Slice

SpecSlice == Init /\ [][NextSlice]_vars

Larger(a, b) == IF a >= b THEN a ELSE b

\* the corner budget of a sprite, from its center rectangle
Budget(sprite) ==
    [w |-> sprite.w - sprite.center.w, h |-> sprite.h - sprite.center.h]

\* C18: draw9Slice(sprite, x, y, w, h) composes (on a miss) and draws a
\* bitmap that is max(w, left + right) wide and max(h, top + bottom) high,
\* so a request below the corner budget gives the corner budget; the key is
\* built from the clamped size, and calls of one sprite with equal clamped
\* sizes share one cached bitmap: the second one composes nothing.
C18_SliceSize ==
    /\ [](\A i \in DOMAIN lastSlice :
          LET c == lastSlice[i]
              cw == Larger(c.w, Budget(c.sprite).w)
              ch == Larger(c.h, Budget(c.sprite).h)
          IN  /\ c.canvas = [w |-> cw, h |-> ch]
              /\ c.drawn = [x |-> 1, y |-> 2, w |-> cw, h |-> ch]
              /\ c.key = SliceKey(c.sprite, cw, ch)
              /\ c.miss <=> c.parts = 9
              /\ ~c.miss <=> c.parts = 0)
    /\ [][\A i \in DOMAIN lastSlice' :
             lastSlice'[i].miss <=> lastSlice'[i].key \notin _sprites]_vars
    /\ [][\A i \in DOMAIN lastSlice, j \in DOMAIN lastSlice' :
             (/\ lastSlice'[j].sprite = lastSlice[i].sprite
              /\ lastSlice'[j].canvas = lastSlice[i].canvas)
             => /\ ~lastSlice'[j].miss
                /\ _sprites' = _sprites]_vars

\* a 1 x 1 request of the panel drew the 4 x 4 bitmap that an earlier
\* request had composed
C18_Witness ==
    /\ lastSlice # <<>>
    /\ lastSlice[1].sprite = panel
    /\ lastSlice[1].w = 1 /\ lastSlice[1].h = 1
    /\ lastSlice[1].canvas = [w |-> 4, h |-> 4]
    /\ ~lastSlice[1].miss

----------------------------------------------------------------------------
(* LRUCache: the entry an overflow evicts.                                 *)

LRUKeys == {"a", "b", "c"}

LRUValues == {1, 2}

LRUCalled == lruClock < MaxOps

LRUNew == \E n \in 1..MaxSize : lruNew(n)

LRUSetCall == LRUCalled /\ \E k \in LRUKeys, v \in LRUValues : lruSet(k, v)

LRUGetCall == LRUCalled /\ \E k \in LRUKeys : lruGet(k)

LRUClearCall == LRUCalled /\ lruClear

NextLRU == LRUNew \/ LRUSetCall \/ LRUGetCall \/ LRUClearCall

SpecLRU == Init /\ [][NextLRU]_vars

\* the last call was a set of a new key that met a full cache
Overflowed(o) ==
    /\ o.op = "set"
    /\ o.key \notin DOMAIN o.before
    /\ Cardinality(DOMAIN o.before) = lru[1].maxSize

\* C19: a set(k, v) of a new key on a cache that holds maxSize entries
\* removes exactly one entry, the one whose last access (a set or a
\* successful get) is the oldest, and every other entry, and the new one,
\* is retrievable with its value afterwards.
C19_EvictsOldest ==
    \A i \in DOMAIN lastOp :
        LET o == lastOp[i]
        IN  Overflowed(o) =>
              \E k \in DOMAIN o.before :
                 /\ \A j \in DOMAIN o.before \ {k} :
                       o.stamps[k].call < o.stamps[j].call
                 /\ DOMAIN o.after = (DOMAIN o.before \ {k}) \cup {o.key}
                 /\ \A j \in DOMAIN o.before \ {k} :
                       LRUGet(lru[1], j).result = <<o.before[j]>>
                 /\ LRUGet(lru[1], o.key).result = o.value

----------------------------------------------------------------------------
(* start(): the frame loop waits for the preloaded assets.                 *)

\* the preload() calls of the game so far
Preloaded == Len(_assets) - (IF startPc = "idle" THEN 0 ELSE 1)

PreloadUrl ==
    /\ Preloaded < MaxTasks
    /\ \E url \in Urls : preloadUrl(url)
    /\ UNCHANGED <<promises, startPc, waited, listening, looping>>
    /\ UNCHANGED <<tweenVars, timerVars, inputVars, drawVars, clockVars, textVars,
                   sliceVars, lruVars, moreVars>>

PreloadPromise ==
    /\ Preloaded < MaxTasks
    /\ \E p \in Promises : preloadPromise(p)
    /\ UNCHANGED <<promises, startPc, waited, listening, looping>>
    /\ UNCHANGED <<tweenVars, timerVars, inputVars, drawVars, clockVars, textVars,
                   sliceVars, lruVars, moreVars>>

ImageEvent == \E url \in Urls, ok \in BOOLEAN : imageEvent(url, ok)

Settle == \E p \in Promises, ok \in BOOLEAN : settle(p, ok)

Start == \E f \in Fonts : start(f)

NextStart ==
    \/ PreloadUrl \/ PreloadPromise \/ ImageEvent \/ Settle
    \/ Start \/ startResume \/ startReject

SpecStart == Init /\ [][NextStart]_vars

\* C20: the frame loop runs and the input listeners are registered only
\* when every promise that was in _assets when start() began to wait, the
\* one of the font image included, has resolved; when one of them rejects,
\* the wait of start() rejects and cannot resume, and after the rejection
\* the loop never starts.
C20_StartsAfterAssets ==
    /\ []((looping \/ listening) =>
            /\ waited >= 1
            /\ Awaited[waited] = [kind |-> "image", ref |-> _state.font.url,
                                  st |-> "resolved"]
            /\ \A i \in 1..waited : _assets[i].st = "resolved")
    /\ []((startPc = "waiting" /\ \E i \in 1..waited : _assets[i].st = "rejected")
            => ENABLED startReject /\ ~ENABLED startResume)
    /\ [](startPc = "rejected" => ~looping /\ ~listening)
    /\ [][startPc = "rejected" => startPc' = "rejected"]_vars
    /\ [][looping' = looping \/ (listening' /\ looping' /\ startPc = "waiting")]_vars

\* the loop runs after a promise of the game and the font image have
\* resolved, while a promise preloaded after the wait began has rejected
C20_Witness ==
    /\ looping /\ listening
    /\ waited >= 2
    /\ \E i \in 1..waited : _assets[i].kind = "promise"
    /\ \E i \in DOMAIN _assets : i > waited /\ _assets[i].st = "rejected"

----------------------------------------------------------------------------
(* The random number generator.                                            *)

SeedValues == {0, 1, 2, 0 - 5}

ShuffleArrays ==
    {<<>>, <<"a">>, <<"a", "b">>, <<"a", "a", "b">>, <<"a", "b", "c">>}

Seed == \E v \in SeedValues : seed(v)

NewArray ==
    /\ Len(arrays) < MaxArrays
    /\ \E a \in ShuffleArrays : newArray(a)

Shuffle ==
    /\ Len(arrays) < MaxArrays
    /\ \E id \in DOMAIN arrays :
          /\ rngCalls + Len(arrays[id]) <= MaxRand
          /\ shuffle(id)

RandomInt == rngCalls < MaxRand /\ \E max \in {1, 6} : randomIntCall(max)

NextRandom == Seed \/ NewArray \/ Shuffle \/ RandomInt

SpecRandom == Init /\ [][NextRandom]_vars

\* C21: seed(0) throws an Error with the message "seed value must be
\* non-zero" and leaves the state of the generator as it was; seed(v) with
\* v # 0 throws nothing and makes v the state.
C21_SeedZero ==
    [][\A v \in SeedValues : seed(v) =>
          /\ lastSeed'[1].value = v
          /\ v = 0 => /\ lastSeed'[1].threw = <<"seed value must be non-zero">>
                      /\ _rng' = _rng
          /\ v # 0 => /\ lastSeed'[1].threw = <<>>
                      /\ _rng' = v]_vars

\* seed(0) was called on a generator that had been seeded and had run
C21_Witness ==
    /\ lastSeed # <<>>
    /\ lastSeed[1].value = 0
    /\ lastSeed[1].threw # <<>>
    /\ rngCalls > 0
    /\ _rng = lastSeed[1].before
    /\ _rng # InitialState

\* the number of elements of a that equal x
Count(a, x) == Cardinality({i \in DOMAIN a : a[i] = x})

IsPermutation(a, b) ==
    /\ Len(a) = Len(b)
    /\ \A i \in DOMAIN b : Count(a, b[i]) = Count(b, b[i])

\* C23: shuffle(array) returns a new array that is a permutation of the
\* given one (same length, same multiset) and leaves the given array as it
\* was, for every length from 0 and in every state of the generator.
C23_ShufflePermutes ==
    \A i \in DOMAIN lastShuffle :
        LET o == lastShuffle[i]
        IN  /\ o.returned # o.given
            /\ arrays[o.given] = o.before
            /\ IsPermutation(arrays[o.returned], o.before)

\* a shuffle of three elements, two of them equal, changed their order
C23_Witness ==
    /\ lastShuffle # <<>>
    /\ lastShuffle[1].before = <<"a", "a", "b">>
    /\ arrays[lastShuffle[1].returned] # <<"a", "a", "b">>

----------------------------------------------------------------------------
(* Scheduling from a per-step callback.                                    *)

SpawnCalls ==
    {[to |-> [a |-> 4], duration |-> 3, easing |-> "easeLinear", id |-> NoId]}

StartWith == \E call \in SpawnCalls, cb \in Callbacks : tweenWith(call, cb)

DelayWith == delayWith(SpawnedDelay.ms)

TickLive == \E dt \in Deltas : _updateLive(dt)

NextSpawn == StartWith \/ DelayWith \/ TickLive

SpecSpawn == Init /\ [][NextSpawn]_vars

\* the deltas of the ticks that began after a tween() or delay() call
Since(h) == now - h.at - (IF h.in = <<>> THEN 0 ELSE h.in[1])

----------------------------------------------------------------------------
(* The frames of the loop.                                                 *)

\* the timestamp of the first frame and the gaps between the later ones
FirstTimes == {0, 3}
FrameGaps == {0, MaxDelta}

FrameBegin ==
    \E time \in IF frameLog = <<>> THEN FirstTimes
                ELSE {lastFrameTime + d : d \in FrameGaps} :
        loopBegin(time)

FrameEnd == loopEnd

\* the game is started with the loaded font
Boot ==
    \/ start(defaultFont)
    \/ imageEvent(defaultFont.url, TRUE)
    \/ startResume

\* the events of one key reach the listeners between two frames
FrameKey ==
    /\ listening
    /\ framePc = "idle"
    /\ onKeyDown("Enter") \/ onKeyUp("Enter")

\* the callback schedules one tween and one timer
FrameSchedule ==
    /\ framePc = "callback"
    /\ \/ Len(sched) = 0 /\ tween([a |-> 4], 4, "easeLinear", NoId)
       \/ Len(timerSched) = 0 /\ delay(3)

NextFrame == Boot \/ FrameBegin \/ FrameEnd \/ FrameKey \/ FrameSchedule

SpecFrame == Init /\ [][NextFrame]_vars

\* a tween or timer that was active before the tick has elapsed dt more
\* after it, or has left the active set because it reached its duration
AdvancedBy(before, after, dt) ==
    \A i \in DOMAIN before :
        IF before[i].elapsed + dt < before[i].duration
        THEN \E j \in DOMAIN after :
                /\ after[j].num = before[i].num
                /\ after[j].elapsed = before[i].elapsed + dt
        ELSE \A j \in DOMAIN after : after[j].num # before[i].num

C26_FrameDelta ==
    \A k \in DOMAIN frameLog :
        frameLog[k].delta =
            IF k = 1 THEN 0 ELSE frameLog[k].time - frameLog[k - 1].time

\* the callback of a frame as draw-state calls: frames one unit of time apart
CallbackBegin == loopBegin(ticks + 1)
CallbackEnd == loopEnd
InCallback == framePc = "callback" /\ Called
CallbackSave == InCallback /\ Len(_stack) < MaxDepth /\ save
CallbackRestore == InCallback /\ restore
CallbackView == InCallback /\ Len(_stack) < MaxDepth /\ view(2, 1, <<3>>, <<>>)
CallbackEndView == InCallback /\ end
CallbackFont == InCallback /\ \E f \in Fonts : font(f)
CallbackColor == InCallback /\ color(red)
CallbackCursor == InCallback /\ cursor(1, 2, <<>>, <<>>)

NextCallback ==
    \/ Boot
    \/ CallbackBegin
    \/ CallbackEnd
    \/ CallbackSave
    \/ CallbackRestore
    \/ CallbackView
    \/ CallbackEndView
    \/ CallbackFont
    \/ CallbackColor
    \/ CallbackCursor

SpecCallback == Init /\ [][NextCallback]_vars

\* the callback of frame k returned with the stack as it found it: as deep
\* as at its start, and with the state the loop saved still on top
Balanced(k) ==
    /\ Len(frameLog[k].left) = 1
    /\ frameLog[k].left[1].depth = frameLog[k].depth
    /\ frameLog[k].left[1].top = <<frameLog[k].state>>

\* C25 as stated: every frame's callback starts with the base state and at
\* the depth of the first frame, whatever the callbacks before it did.
C25_AlwaysBase ==
    \A k \in DOMAIN frameLog :
        /\ frameLog[k].state = BaseState
        /\ frameLog[k].depth = frameLog[1].depth

\* C25: a frame's callback starts with the state and at the depth its
\* predecessor's callback started with, whatever font, color and cursor that
\* callback set, when that callback returned with the stack as it found it
\* (every view() and save() of it matched by an end() or restore(), and
\* nothing popped that it did not push).
C25_BaseWhenBalanced ==
    \A k \in DOMAIN frameLog :
        (k > 1 /\ Balanced(k - 1)) =>
            /\ frameLog[k].state = frameLog[k - 1].state
            /\ frameLog[k].depth = frameLog[k - 1].depth

\* a callback changed the font and the color and returned with the stack as
\* it found it, and the next callback has started with the base state
C25_Witness ==
    /\ Len(frameLog) >= 2
    /\ Balanced(1)
    /\ frameLog[1].left[1].state.font # frameLog[1].state.font
    /\ frameLog[1].left[1].state.color # frameLog[1].state.color
    /\ frameLog[2].state = BaseState

\* button events between frames whose callbacks only read the inputs
FramePointer ==
    /\ listening
    /\ framePc = "idle"
    /\ onPointerDown(0) \/ onPointerUp(0)

\* a key that goes down and is held: keydown arrives again while it is down
FrameRepeat ==
    /\ listening
    /\ framePc = "idle"
    /\ onKeyDown("Enter")

NextButtons == Boot \/ CallbackBegin \/ CallbackEnd \/ FrameRepeat \/ FramePointer

SpecButtons == Init /\ [][NextButtons]_vars

\* C28: a down (up) event for b makes pressed(b) (released(b)) true; what a
\* callback reads is what the events since the callback before it left;
\* nothing takes b out of pressed or released but the update at the end of
\* a frame whose callback has read it, and that update empties both, so
\* that later callbacks read false until another event for b.
C28_SeenByOneFrame ==
    /\ [][\A b \in {"Enter", PointerButton[0]} :
            /\ (b \notin _down /\ b \in _down') => b \in _pressed'
            /\ (b \in _down /\ b \notin _down') => b \in _released'
            /\ (b \notin _pressed /\ b \in _pressed') =>
                   (framePc = "idle" /\ framePc' = "idle" /\ b \in _down')
            /\ (b \notin _released /\ b \in _released') =>
                   (framePc = "idle" /\ framePc' = "idle" /\ b \notin _down')
            /\ ((b \in _pressed /\ b \notin _pressed') \/
                (b \in _released /\ b \notin _released')) =>
                   (framePc = "callback" /\ framePc' = "idle")]_vars
    /\ [](framePc = "callback" =>
            /\ frameLog[Len(frameLog)].pressed = _pressed
            /\ frameLog[Len(frameLog)].released = _released)
    /\ [][framePc = "callback" /\ framePc' = "idle" =>
            _pressed' = {} /\ _released' = {}]_vars
    /\ [][framePc' = "callback" => UNCHANGED <<_pressed, _released, _down>>]_vars

\* the first callback after a down event for the pointer button read
\* pressed, and the one after it, with the button still down, did not, while
\* it read the press of a key that was down already
C28_Witness ==
    /\ Len(frameLog) >= 3
    /\ framePc = "callback"
    /\ PointerButton[0] \notin frameLog[Len(frameLog) - 2].pressed
    /\ PointerButton[0] \in frameLog[Len(frameLog) - 1].pressed
    /\ PointerButton[0] \notin frameLog[Len(frameLog)].pressed
    /\ PointerButton[0] \in _down
    /\ "Enter" \in frameLog[Len(frameLog) - 1].pressed
    /\ "Enter" \in frameLog[Len(frameLog)].pressed

\* the full reset among tweens, timers, key events, draw-state calls and
\* frame ticks
ResetTween == tween([a |-> 4], 4, "easeLinear", NoId)
ResetDelay == delay(3)
ResetKey == onKeyDown("Enter")
ResetView == Called /\ Len(_stack) < MaxDepth /\ view(2, 1, <<3>>, <<>>)
Reset == _reset

ResetTick == _update(MaxDelta)

NextReset == ResetTween \/ ResetDelay \/ ResetKey \/ ResetTick \/ ResetView \/ Reset

SpecReset == Init /\ [][NextReset]_vars

\* the full reset among the draw-state calls
NextSurface == Save \/ View \/ Restore \/ End \/ Reset

SpecSurface == Init /\ [][NextSurface]_vars

\* C27: a full reset leaves no active tween and no active timer, empties
\* down, pressed and released, and empties the draw-state stack with its
\* bottom state, if it had one, as the current state.
C27_ResetClears ==
    [][_reset =>
          /\ _tweens' = <<>>
          /\ _timers' = <<>>
          /\ _down' = {} /\ _pressed' = {} /\ _released' = {}
          /\ _stack' = <<>>
          /\ _state' = IF Len(_stack) > 0 THEN _stack[1] ELSE _state]_vars

\* C30: whatever save, restore, view, end and full reset have been called,
\* the translation of the surface is the view origin of the draw state.
C30_SurfaceInStep == ctxT = <<_state.x, _state.y>>

C40_CompletesAtTo ==
    [][ticks' = ticks + 1 =>
        \A i \in DOMAIN _tweens :
            LET tw == _tweens[i]
            IN  doneCount'[tw.num] = doneCount[tw.num] + 1 =>
                    \A key \in tw.keys :
                        \/ \E j \in DOMAIN _tweens : j > i /\ key \in _tweens[j].keys
                        \/ object'[key] = Num(tw.to[key])]_vars

----------------------------------------------------------------------------
(* LRUCache: the recency list and the key map.                             *)

\* the keys met by following next from node id, for at most fuel steps
RECURSIVE Chain(_, _, _)
Chain(c, id, fuel) ==
    IF id = Null \/ fuel = 0 THEN <<>>
    ELSE <<c.heap[id].key>> \o Chain(c, c.heap[id].next, fuel - 1)

\* following next from head visits exactly the stored keys, each once, and
\* ends at tail
ListConsistent(c) ==
    LET n == Cardinality(DOMAIN c.cache)
        keys == Chain(c, c.head, n + 1)
    IN  /\ Len(keys) = n
        /\ {keys[i] : i \in DOMAIN keys} = DOMAIN c.cache
        /\ IF n = 0 THEN c.tail = Null
           ELSE c.tail # Null /\ c.heap[c.tail].key = keys[n]

\* C36: whatever the capacity (1 included) and the calls of set, get and
\* clear, no call fails, the cache never holds more than maxSize entries and
\* the list from head holds exactly the stored keys and ends at tail.
C36_ListConsistent ==
    /\ \A i \in DOMAIN lastOp : ~lastOp[i].threw
    /\ \A i \in DOMAIN lru :
          /\ Cardinality(DOMAIN lru[i].cache) <= lru[i].maxSize
          /\ ListConsistent(lru[i])

\* C37: a get(k) that follows a set(k, v) directly returns v, whether k was
\* present before the set or not, and a set of a present key makes k the
\* most recently used entry.
C37_SetThenGet ==
    /\ [][\A i \in DOMAIN lastOp, j \in DOMAIN lastOp' :
            (/\ lruClock' = lruClock + 1
             /\ lastOp[i].op = "set" /\ ~lastOp[i].threw
             /\ lastOp'[j].op = "get"
             /\ lastOp'[j].key = lastOp[i].key) =>
                lastOp'[j].result = lastOp[i].value]_vars
    /\ [][\A j \in DOMAIN lastOp' :
            (/\ lruClock' = lruClock + 1
             /\ lastOp'[j].op = "set"
             /\ lastOp'[j].key \in DOMAIN lastOp'[j].before) =>
                /\ lru'[1].head # Null
                /\ lru'[1].heap[lru'[1].head].key = lastOp'[j].key]_vars

----------------------------------------------------------------------------
(* The buttons that are down.                                              *)

\* key and pointer events, frame ticks and the full reset
NextDown == PointerDown \/ PointerUp \/ KeyDown \/ KeyUp \/ ResetTick \/ Reset

SpecDown == Init /\ [][NextDown]_vars

\* C38: down(b) is decided by the last down or up event for b since the last
\* full reset: a down event for b makes it true and an up event false,
\* neither changes down() of another button, key or pointer, a frame tick
\* changes no down(), and after a full reset no button is down.
C38_DownIsLastEvent ==
    /\ [][\A key \in KeyNames :
            /\ onKeyDown(key) => down(key)' /\ _down' \ {key} = _down \ {key}
            /\ onKeyUp(key) => ~down(key)' /\ _down' \ {key} = _down \ {key}]_vars
    /\ [][\A button \in DOMAIN PointerButton :
            LET b == PointerButton[button]
            IN  /\ onPointerDown(button) => down(b)' /\ _down' \ {b} = _down \ {b}
                /\ onPointerUp(button) => ~down(b)' /\ _down' \ {b} = _down \ {b}]_vars
    /\ [][ticks' # ticks => _down' = _down]_vars
    /\ [][_reset => _down' = {}]_vars
    /\ [](PointerButton[0] \notin KeyNames /\ PointerButton[1] \notin KeyNames)

\* the key "0" is held over a tick while pointer button 0 has gone down and up
\* since the last tick and pointer button 1 is down
C38_Witness ==
    /\ ticks >= 2
    /\ down("0") /\ ~pressed("0")
    /\ ~down(PointerButton[0]) /\ released(PointerButton[0])
    /\ down(PointerButton[1])

----------------------------------------------------------------------------
(* draw9Slice: the nine cells.                                             *)

\* the cells of cs that hold the pixel (px, py), by the rectangle each cell
\* has under x, y, w and h
Holding(cs, px, py, x(_), y(_), w(_), h(_)) ==
    {i \in DOMAIN cs : /\ x(cs[i]) <= px /\ px < x(cs[i]) + w(cs[i])
                       /\ y(cs[i]) <= py /\ py < y(cs[i]) + h(cs[i])}

\* the rectangles of cs cover every pixel of the w by h rectangle at (x0, y0)
\* exactly once and nothing outside it
Tiles(cs, x0, y0, w0, h0, x(_), y(_), w(_), h(_)) ==
    /\ \A i \in DOMAIN cs :
          /\ x0 <= x(cs[i]) /\ x(cs[i]) + w(cs[i]) <= x0 + w0
          /\ y0 <= y(cs[i]) /\ y(cs[i]) + h(cs[i]) <= y0 + h0
    /\ \A px \in x0..(x0 + w0 - 1), py \in y0..(y0 + h0 - 1) :
          Cardinality(Holding(cs, px, py, x, y, w, h)) = 1

SourceX(c) == c.sx
SourceY(c) == c.sy
SourceW(c) == c.sw
SourceH(c) == c.sh
DestX(c) == c.dx
DestY(c) == c.dy
DestW(c) == c.dw
DestH(c) == c.dh

\* C31: wherever the sprite lies in its image, the nine source cells tile
\* the sprite's rectangle in the image (columns at sprite.x, sprite.x + left
\* and sprite.x + sprite.w - right, rows at sprite.y, sprite.y + top and
\* sprite.y + sprite.h - bottom), the corners are copied unscaled, and the
\* nine destination cells tile the clamped output.
C31_CellsTile ==
    \A i \in DOMAIN lastSlice :
        LET o == lastSlice[i]
            s == o.sprite
        IN  o.miss =>
              /\ Tiles(o.cells, s.x, s.y, s.w, s.h,
                       SourceX, SourceY, SourceW, SourceH)
              /\ \A j \in 1..4 : /\ o.cells[j].dw = o.cells[j].sw
                                 /\ o.cells[j].dh = o.cells[j].sh
              /\ Tiles(o.cells, 0, 0, o.canvas.w, o.canvas.h,
                       DestX, DestY, DestW, DestH)

----------------------------------------------------------------------------
(* write: the image of each glyph.                                         *)

\* the font of the fixture, with its threshold for glyphs that carry their
\* own colours
testFont ==
    [url |-> <<"f", "t">>, glyphWidth |-> 5, glyphHeight |-> 6, lineHeight |-> 7,
     precoloredGlyphs |-> 8, glyphWidthsTable |-> <<>>]

\* texts with a tab (code 9), a letter and a line break
GlyphTexts == {<<"\t">>, <<"m", "\t">>, <<"\t", "\n", "m">>, <<"m">>}

PickGlyphFont == (\E f \in Fonts \cup {testFont} : font(f)) /\ UNCHANGED calls

WriteGlyphs ==
    /\ Wrote
    /\ \E text \in GlyphTexts :
          write(text, _state.textX, _state.textY, Fill(_state.color), Undefined)

NextGlyph == PickGlyphFont \/ WriteGlyphs

SpecGlyph == Init /\ [][NextGlyph]_vars

\* C32: a glyph that write rasterizes comes from the untinted font image
\* exactly when its character code is below the active font's
\* precoloredGlyphs, and from the tinted copy of the font image otherwise.
C32_ThresholdOfFont ==
    \A i \in DOMAIN lastWrite :
        LET o == lastWrite[i]
            f == o.args.font
        IN  "precoloredGlyphs" \in DOMAIN f =>
              \A j \in DOMAIN o.images :
                  /\ o.images[j].img = f.url <=> o.images[j].code < f.precoloredGlyphs
                  /\ o.images[j].img # f.url =>
                        o.images[j].img = TintKeyIn(_keys, f, o.args.col)

----------------------------------------------------------------------------
(* lineToPoints.                                                           *)

Sign(n) == IF n > 0 THEN 1 ELSE IF n < 0 THEN -1 ELSE 0
Max(a, b) == IF a >= b THEN a ELSE b

\* utils.ts:246-254, the loop over x of a line that is wider than tall
RECURSIVE LoopX(_, _, _, _, _, _, _, _, _)
LoopX(x, y, err, x2, sx, sy, dx, dy, points) ==
    IF ~(IF sx < 0 THEN x >= x2 ELSE x <= x2) THEN points
    ELSE LET step == (err + dy) * 2 >= dx
         IN  LoopX(x + sx, IF step THEN y + sy ELSE y,
                   IF step THEN err + dy - dx ELSE err + dy,
                   x2, sx, sy, dx, dy, Append(points, [x |-> x, y |-> y]))

\* utils.ts:257-266, the loop over y of the other lines
RECURSIVE LoopY(_, _, _, _, _, _, _, _, _)
LoopY(x, y, err, y2, sx, sy, dx, dy, points) ==
    IF ~(IF sy < 0 THEN y >= y2 ELSE y <= y2) THEN points
    ELSE LET step == (err + dx) * 2 >= dy
         IN  LoopY(IF step THEN x + sx ELSE x, y + sy,
                   IF step THEN err + dx - dy ELSE err + dx,
                   y2, sx, sy, dx, dy, Append(points, [x |-> x, y |-> y]))

lineToPoints(x1, y1, x2, y2) ==
    LET sx == Sign(x2 - x1)
        sy == Sign(y2 - y1)
        dx == Abs(x2 - x1)
        dy == Abs(y2 - y1)
    IN  IF sx = 0 /\ sy = 0 THEN <<>>
        ELSE IF dx > dy
             THEN LoopX(x1, y1, 0, x2, sx, sy, dx, dy, <<>>)
             ELSE LoopY(x1, y1, 0, y2, sx, sy, dx, dy, <<>>)

LineCoords == (0 - MaxCoord)..MaxCoord

Line ==
    /\ \E x1 \in LineCoords, y1 \in LineCoords, x2 \in LineCoords, y2 \in LineCoords :
          lastLine' = <<[x1 |-> x1, y1 |-> y1, x2 |-> x2, y2 |-> y2,
                         points |-> lineToPoints(x1, y1, x2, y2)]>>
    /\ UNCHANGED <<tweenVars, timerVars, inputVars, drawVars, clockVars, textVars,
                   otherVars, randVars, frameVars, partVars, texVars>>

NextLine == Line

SpecLine == Init /\ [][NextLine]_vars

\* the points run from the first end to the second, one step of the major
\* axis at a time and never more than one step of the other
LineWalks(o) ==
    LET pts == o.points
        wide == Abs(o.x2 - o.x1) > Abs(o.y2 - o.y1)
    IN  /\ Len(pts) = Max(Abs(o.x2 - o.x1), Abs(o.y2 - o.y1)) + 1
        /\ pts[1] = [x |-> o.x1, y |-> o.y1]
        /\ pts[Len(pts)] = [x |-> o.x2, y |-> o.y2]
        /\ \A i \in 1..(Len(pts) - 1) :
              /\ Abs(pts[i + 1].x - pts[i].x) <= 1
              /\ Abs(pts[i + 1].y - pts[i].y) <= 1
              /\ IF wide THEN Abs(pts[i + 1].x - pts[i].x) = 1
                         ELSE Abs(pts[i + 1].y - pts[i].y) = 1

\* C34: for integer end points lineToPoints returns max(|x2 - x1|, |y2 - y1|)
\* + 1 points, the first (x1, y1) and the last (x2, y2), consecutive points
\* differing by at most 1 in each coordinate and by exactly 1 along the major
\* axis; also when the two end points are the same point.
C34_LineWalks == \A i \in DOMAIN lastLine : LineWalks(lastLine[i])

----------------------------------------------------------------------------
(* TextureCache.                                                           *)

\* the strip stops growing here
MaxStrip == 1200

\* the canvases handed to add and returned by create
TexCanvases == {[w |-> 100, h |-> 100], [w |-> 250, h |-> 200]}

\* utils.ts:310-312, while (this.canvas.width < requiredWidth) width *= 2
RECURSIVE Doubled(_, _)
Doubled(width, required) ==
    IF width < required THEN Doubled(width * 2, required) ELSE width

\* utils.ts:303-335, add(key, canvas): the cache after it and the rect returned
TexAdd(t, key, canvas) ==
    LET requiredWidth == t.cursor + canvas.w
        requiredHeight == canvas.h
        grow == requiredWidth > t.width \/ requiredHeight > t.height
        rect == [x |-> t.cursor, y |-> 0, w |-> canvas.w, h |-> canvas.h]
    IN  [t |-> [width |-> IF grow THEN Doubled(t.width, requiredWidth) ELSE t.width,
                height |-> IF grow /\ t.height < requiredHeight
                           THEN requiredHeight ELSE t.height,
                cursor |-> t.cursor + canvas.w,
                rects |-> Put(t.rects, key, rect)],
         rect |-> rect]

TexRecord(op, key, rect, creates) ==
    [op |-> op, key |-> key, prev |-> lastTex.op, rect |-> rect, creates |-> creates]

texAdd(key, canvas) ==
    LET r == TexAdd(textures, key, canvas)
    IN  /\ textures.cursor < MaxStrip
        /\ textures' = r.t
        /\ lastTex' = TexRecord("add", key, <<r.rect>>, lastTex.creates)

\* utils.ts:295-297, this.rects[key] || this.add(key, create())
texFindOrCreate(key, canvas) ==
    IF key \in DOMAIN textures.rects
    THEN /\ textures' = textures
         /\ lastTex' = TexRecord("find", key, <<textures.rects[key]>>, lastTex.creates)
    ELSE LET r == TexAdd(textures, key, canvas)
         IN  /\ textures.cursor < MaxStrip
             /\ textures' = r.t
             /\ lastTex' = TexRecord("create", key, <<r.rect>>,
                                     [lastTex.creates EXCEPT ![key] = @ + 1])

\* utils.ts:290-293, clear(): the rects are dropped and the canvas is wiped
texClear ==
    /\ textures' = [textures EXCEPT !.rects = <<>>]
    /\ lastTex' = TexRecord("clear", "", <<>>, [k \in TexKeys |-> 0])

TexUnchanged ==
    UNCHANGED <<tweenVars, timerVars, inputVars, drawVars, clockVars, textVars,
                otherVars, randVars, frameVars, partVars, lineVars>>

AddTexture ==
    (\E key \in TexKeys, canvas \in TexCanvases : texAdd(key, canvas)) /\ TexUnchanged
FindOrCreateTexture ==
    /\ \E key \in TexKeys, canvas \in TexCanvases : texFindOrCreate(key, canvas)
    /\ TexUnchanged
ClearTextures == texClear /\ TexUnchanged

NextTexture == AddTexture \/ FindOrCreateTexture \/ ClearTextures

SpecTexture == Init /\ [][NextTexture]_vars

\* every stored rect lies inside the canvas and no two of them overlap
RectsInside(t) ==
    /\ \A key \in DOMAIN t.rects :
          LET r == t.rects[key]
          IN  r.x >= 0 /\ r.x + r.w <= t.width /\ r.y = 0 /\ r.h <= t.height
    /\ \A k1 \in DOMAIN t.rects, k2 \in DOMAIN t.rects :
          k1 # k2 => \/ t.rects[k1].x + t.rects[k1].w <= t.rects[k2].x
                     \/ t.rects[k2].x + t.rects[k2].w <= t.rects[k1].x

\* C35: after any sequence of add, findOrCreate and clear every stored rect
\* lies inside the backing canvas, no two stored rects overlap, findOrCreate
\* has called create at most once per key since the last clear, and after
\* clear() no key is present and the next texture is placed at x = 0.
C35_StripInvariant ==
    /\ RectsInside(textures)
    /\ \A key \in TexKeys : lastTex.creates[key] <= 1
    /\ lastTex.op = "clear" => DOMAIN textures.rects = {}
    /\ (lastTex.prev = "clear" /\ lastTex.op \in {"add", "create"}) =>
          lastTex.rect[1].x = 0

----------------------------------------------------------------------------
(* Particle emitters.                                                      *)

MaxEmitters == 2
MaxBursts == 1

\* the emitters constructed: one that emits a particle per frame and one
\* that only bursts; the duration is a range [base, 0], so that every
\* particle of an emitter lives for base milliseconds
EmitterConfigs ==
    {[frequency |-> 1, duration |-> MaxDelta], [frequency |-> 0, duration |-> 1]}

InList(id) == \E i \in DOMAIN _emitters : _emitters[i] = id

\* _emitters.indexOf(emitter), counted from 1; 0 stands for the -1 of a miss
IndexOf(list, id) ==
    IF \E i \in DOMAIN list : list[i] = id
    THEN CHOOSE i \in DOMAIN list : list[i] = id /\ \A j \in 1..(i - 1) : list[j] # id
    ELSE 0

\* list.splice(index, 1) for an index counted from 1; the index of a miss
\* counts from the end and takes the last element
Splice(list, index) ==
    LET at == IF index = 0 THEN Len(list) ELSE index
    IN  [j \in 1..(Len(list) - 1) |-> IF j < at THEN list[j] ELSE list[j + 1]]

\* particles.ts:215-229, emit() called count times: the particles are added
\* at the end of the Set with elapsed 0 and the emitter's duration
Emitted(em, count) ==
    [em EXCEPT !.particles =
        @ \o [j \in 1..count |-> [elapsed |-> 0, duration |-> em.duration]]]

\* particles.ts:190-205, the loop over the particles under a delta of dt
Aged(particles, dt) ==
    SelectSeq([j \in DOMAIN particles |->
                  [particles[j] EXCEPT !.elapsed = @ + dt]],
              LAMBDA p : ~(p.elapsed >= p.duration))

\* an update() that emits whether or not the emitter is done
update_NoDoneTest(st, id, dt) ==
    LET em == st.ems[id]
        clock == em.clock + em.frequency
        count == IF clock > 0 THEN clock ELSE 0
        fed == Emitted([em EXCEPT !.clock = clock - count], count)
        left == [fed EXCEPT !.particles = Aged(fed.particles, dt)]
        gone == left.done /\ left.particles = <<>>
    IN  [list |-> IF gone THEN Splice(st.list, IndexOf(st.list, id)) ELSE st.list,
         ems |-> [st.ems EXCEPT ![id] = left],
         visited |-> Append(st.visited, id)]

\* particles.ts:179-210, update() of emitter id under a delta of dt: the
\* clock is fed and, unless the emitter is done, spent on new particles; the
\* particles age and the expired ones leave; a done emitter without
\* particles is spliced out of _emitters
update(st, id, dt) ==
    LET em == st.ems[id]
        clock == em.clock + em.frequency
        count == IF ~em.done /\ clock > 0 THEN clock ELSE 0
        fed == Emitted([em EXCEPT !.clock = clock - count], count)
        left == [fed EXCEPT !.particles = Aged(fed.particles, dt)]
        gone == left.done /\ left.particles = <<>>
    IN  [list |-> IF gone THEN Splice(st.list, IndexOf(st.list, id)) ELSE st.list,
         ems |-> [st.ems EXCEPT ![id] = left],
         visited |-> Append(st.visited, id)]

\* particles.ts:266-270, for (let emitter of _emitters) emitter.update():
\* the iterator reads the list as it is at each step
RECURSIVE UpdateLoop(_, _, _)
UpdateLoop(st, i, dt) ==
    IF i > Len(st.list) THEN st
    ELSE CHOOSE r \in {UpdateLoop(s, i + 1, dt) :
                           s \in {update(st, st.list[i], dt)}} : TRUE

\* one frame of a loop that calls updateParticles() and renderParticles()
\* (part_004:4-8) and ends in _update(dt) with no tween, timer or input
\* pending: the emitters see the delta of the frame before
particleFrame(dt) ==
    /\ \E st \in {UpdateLoop([list |-> _emitters, ems |-> emitters,
                              visited |-> <<>>], 1, _delta)} :
          /\ _emitters' = st.list
          /\ emitters' = st.ems
          /\ lastRun' = <<[delta |-> _delta, before |-> _emitters,
                           visited |-> st.visited, rendered |-> st.list]>>
    /\ _delta' = dt
    /\ UNCHANGED <<bursts, now, ticks>>

\* particles.ts:162-165, new ParticleEmitter(props)
newEmitter(frequency, duration) ==
    /\ emitters' = Append(emitters,
          [done |-> FALSE, clock |-> 0, frequency |-> frequency,
           duration |-> duration, particles |-> <<>>])
    /\ _emitters' = Append(_emitters, Len(emitters) + 1)
    /\ UNCHANGED <<lastRun, bursts, clockVars>>

\* particles.ts:172-174, stop()
stop(id) ==
    /\ emitters' = [emitters EXCEPT ![id].done = TRUE]
    /\ UNCHANGED <<_emitters, lastRun, bursts, clockVars>>

\* particles.ts:234-238, burst(count)
burst(id, count) ==
    /\ emitters' = [emitters EXCEPT ![id] = Emitted(@, count)]
    /\ bursts' = bursts + 1
    /\ UNCHANGED <<_emitters, lastRun, clockVars>>

PartUnchanged ==
    UNCHANGED <<tweenVars, timerVars, inputVars, drawVars, textVars, otherVars,
                randVars, frameVars, lineVars, texVars>>

NewEmitter ==
    /\ Len(emitters) < MaxEmitters
    /\ \E props \in EmitterConfigs : newEmitter(props.frequency, props.duration)
    /\ PartUnchanged

Stop ==
    /\ \E id \in DOMAIN emitters : ~emitters[id].done /\ stop(id)
    /\ PartUnchanged

Burst ==
    /\ bursts < MaxBursts
    /\ \E id \in DOMAIN emitters, count \in {1, 2} : InList(id) /\ burst(id, count)
    /\ PartUnchanged

\* the first frame of a loop has a delta of 0 (core.ts:228-229)
FirstFrame == lastRun = <<>> /\ particleFrame(0) /\ PartUnchanged

PositiveFrame == (\E dt \in Deltas \ {0} : particleFrame(dt)) /\ PartUnchanged

NextParticle == NewEmitter \/ Stop \/ Burst \/ FirstFrame \/ PositiveFrame

SpecParticle == Init /\ [][NextParticle]_vars

\* the frames keep coming, and a frame with a positive delta among them
SpecParticleFair == SpecParticle /\ WF_vars(PositiveFrame)

\* C39: updateParticles() calls update() exactly once on every emitter that
\* is in the active list when the call starts, also when emitters remove
\* themselves from the list during the call.
C39_EveryEmitterOnce ==
    \A i \in DOMAIN lastRun : lastRun[i].visited = lastRun[i].before

Frame == FirstFrame \/ PositiveFrame

Updated(id) == \E i \in DOMAIN lastRun : \E j \in DOMAIN lastRun[i].visited :
                    lastRun[i].visited[j] = id
Rendered(id) == \E i \in DOMAIN lastRun : \E j \in DOMAIN lastRun[i].rendered :
                    lastRun[i].rendered[j] = id

\* an emitter that is done never has more particles after a step than before
NoNewAfterStop ==
    [][\A id \in DOMAIN emitters :
          emitters[id].done =>
              Len(emitters'[id].particles) <= Len(emitters[id].particles)]_vars

\* update() of a done emitter creates no particle; burst() is the one step
\* that adds particles to a done emitter
NoNewByUpdate ==
    [][\A id \in DOMAIN emitters :
          (emitters[id].done /\ bursts' = bursts) =>
              Len(emitters'[id].particles) <= Len(emitters[id].particles)]_vars

\* a done emitter that its update() leaves without particles is out of the
\* list when the frame is over
RemovedWhenEmpty ==
    [][Frame =>
          \A id \in DOMAIN emitters :
              (Updated(id)' /\ emitters'[id].done /\ emitters'[id].particles = <<>>)
                  => ~InList(id)']_vars

\* an emitter that has left the list stays out and no later frame updates
\* or renders it
GoneForGood ==
    [][\A id \in DOMAIN emitters :
          ~InList(id) => /\ ~InList(id)'
                         /\ Frame => ~Updated(id)' /\ ~Rendered(id)']_vars

\* a stopped emitter leaves the list
StoppedLeaves ==
    \A id \in 1..MaxEmitters :
        (id \in DOMAIN emitters /\ emitters[id].done /\ InList(id)) ~> ~InList(id)

====
